---- MODULE Spec2Model ----
(***************************************************************************)
(* Model of the Civ recompiler tool chain (tools/recomp): the 16-bit x86   *)
(* instruction decoder (decode16.py) and the function analyzer             *)
(* (analyze.py).  Byte buffers are sequences of integers 0..255; a cursor  *)
(* p is 0-based as in the Python source, so byte p of a buffer d is        *)
(* d[p+1].                                                                 *)
(***************************************************************************)
EXTENDS Integers, Sequences, FiniteSets, TLC

\* a Decoder, and the decode_range call in progress on it
VARIABLES data, base, pos, rangeStart, rangeEnd, instructions, pc

\* an Analyzer: its file image, the fields __init__ parses from the header,
\* its overlays and functions lists, and which of its methods have run
VARIABLES fileData, hdr_size, img_size, overlays, functions, strings, apc

dvars == <<data, base, pos, rangeStart, rangeEnd, instructions, pc>>

avars == <<fileData, hdr_size, img_size, overlays, functions, strings, apc>>

\* the lifter: the arguments of lift_function, the fields of the Lifter, the
\* position of the second pass and of the call
VARIABLES fname, linsts, func_start, output, indent, labels_needed, func_calls,
          ovl_calls, li, lpc

lvars == <<fname, linsts, func_start, output, indent, labels_needed, func_calls,
           ovl_calls, li, lpc>>

\* resolve_stubs.py, main: the bytes of the executable, the names parsed from
\* the header and from the stubs file, the four classes, the pairs written to
\* civ_aliases.c, the count reported, the position of the loop and of main
VARIABLES exe, known_funcs, stub_names, resolved, aliases, c_library,
          unresolvable, alias_file, remaining, ri, rpc

rvars == <<exe, known_funcs, stub_names, resolved, aliases, c_library,
           unresolvable, alias_file, remaining, ri, rpc>>

vars == <<dvars, avars, lvars, rvars>>

\* no Lifter has been made
NoLifter ==
  /\ fname = ""
  /\ linsts = <<>>
  /\ func_start = 0
  /\ output = <<>>
  /\ indent = 1
  /\ labels_needed = {}
  /\ func_calls = {}
  /\ ovl_calls = {}
  /\ li = 0
  /\ lpc = "none"

\* resolve_stubs.py has not been run
NoResolver ==
  /\ exe = <<>>
  /\ known_funcs = <<>>
  /\ stub_names = <<>>
  /\ resolved = <<>>
  /\ aliases = <<>>
  /\ c_library = <<>>
  /\ unresolvable = <<>>
  /\ alias_file = <<>>
  /\ remaining = 0
  /\ ri = 0
  /\ rpc = "none"

(***************************************************************************)
(* Bounds of the model.                                                    *)
(***************************************************************************)
MaxLen == 5

MaxLenBranch == 4

MaxLenModRM == 5

MaxResChunks == 3

MaxOvlChunks == 2

MaxStrChunks == 5

MaxLenLift == 4

MaxCallChunks == 2

MaxScanBlocks == 1

MaxPipeChunks == 2

\* names in a stubs file
MaxStubs == 4

(***************************************************************************)
(* decode16.py: tables                                                     *)
(***************************************************************************)
REG16_NAMES == <<"ax", "cx", "dx", "bx", "sp", "bp", "si", "di">>

EA_BASES ==
  << <<"bx", "si">>, <<"bx", "di">>, <<"bp", "si">>, <<"bp", "di">>,
     <<"si", "">>,   <<"di", "">>,   <<"bp", "">>,   <<"bx", "">> >>

EA_DEFAULT_SEG == <<"ds", "ds", "ss", "ss", "ds", "ds", "ss", "ds">>

ALU_NAMES == <<"add", "or", "adc", "sbb", "and", "sub", "xor", "cmp">>

CC_NAMES == <<"jo", "jno", "jb", "jae", "je", "jne", "jbe", "ja",
              "js", "jns", "jp", "jnp", "jl", "jge", "jle", "jg">>

SHIFT_NAMES == <<"rol", "ror", "rcl", "rcr", "shl", "shr", "sal", "sar">>

GRP3 == <<"test", "test", "not", "neg", "mul", "imul", "div", "idiv">>

GRP5 == <<"inc", "dec", "call", "call far", "jmp", "jmp far", "push", "?">>

GRP4 == <<"inc", "dec", "grp4_2", "grp4_3", "grp4_4", "grp4_5", "grp4_6", "grp4_7">>

ESC_NAMES == <<"esc_0", "esc_1", "esc_2", "esc_3", "esc_4", "esc_5", "esc_6", "esc_7">>

(***************************************************************************)
(* decode16.py: Operand and its variants                                   *)
(***************************************************************************)
Operand(t, r, sg, b, ix, d, sz, fs) ==
  [type |-> t, reg |-> r, seg |-> sg, base |-> b, index |-> ix,
   disp |-> d, size |-> sz, far_seg |-> fs]

NoOperand == Operand("NONE", 0, "", "", "", 0, 0, 0)
Reg8(r) == Operand("REG8", r, "", "", "", 0, 1, 0)
Reg16(r) == Operand("REG16", r, "", "", "", 0, 2, 0)
SReg(r) == Operand("SREG", r, "", "", "", 0, 2, 0)
Imm8(v, sz) == Operand("IMM8", 0, "", "", "", v, sz, 0)
Imm16(v) == Operand("IMM16", 0, "", "", "", v, 2, 0)
Rel8(t) == Operand("REL8", 0, "", "", "", t, 2, 0)
Rel16(t) == Operand("REL16", 0, "", "", "", t, 2, 0)
FarPtr(off, sg) == Operand("FAR", 0, "", "", "", off, 4, sg)
Moffs(d, sg, sz) == Operand("MOFFS", 0, sg, "", "", d, sz, 0)
Mem(b, ix, d, sg, sz) == Operand("MEM", 0, sg, b, ix, d, sz, 0)

(***************************************************************************)
(* decode16.py: Instruction                                                *)
(***************************************************************************)
Instruction ==
  [offset |-> 0, address |-> 0, length |-> 0, raw |-> <<>>, mnemonic |-> "",
   op1 |-> NoOperand, op2 |-> NoOperand, prefix |-> "", seg_override |-> "",
   overlay_num |-> -1, overlay_off |-> 0]

(***************************************************************************)
(* decode16.py: the cursor reads.  Each raises IndexError when the bytes   *)
(* it indexes are not in the buffer; CanRead is that condition's negation. *)
(***************************************************************************)
CanRead(d, p, n) == p + n <= Len(d)

U8(d, p) == d[p + 1]

S8(d, p) == IF d[p + 1] < 128 THEN d[p + 1] ELSE d[p + 1] - 256

U16(d, p) == d[p + 1] + 256 * d[p + 2]

S16(d, p) == IF U16(d, p) < 32768 THEN U16(d, p) ELSE U16(d, p) - 65536

Mask16(v) == v % 65536

(***************************************************************************)
(* decode16.py: Decoder._decode_modrm                                      *)
(***************************************************************************)
EaBaseKeepsBP(mod, rm) == EA_BASES[rm + 1][1]

EaBase(mod, rm) == IF mod = 0 /\ rm = 6 THEN "" ELSE EA_BASES[rm + 1][1]

EaIndex(mod, rm) == IF mod = 0 /\ rm = 6 THEN "" ELSE EA_BASES[rm + 1][2]

EaSegTableOnly(mod, rm, so) == IF so # "" THEN so ELSE EA_DEFAULT_SEG[rm + 1]

EaSeg(mod, rm, so) ==
  IF so # "" THEN so
  ELSE IF mod = 0 /\ rm = 6 THEN "ds" ELSE EA_DEFAULT_SEG[rm + 1]

DispLen(mod, rm) ==
  IF mod = 0 /\ rm = 6 THEN 2 ELSE IF mod = 1 THEN 1 ELSE IF mod = 2 THEN 2 ELSE 0

EaDisp(d, p, mod, rm) ==
  IF mod = 0 /\ rm = 6 THEN U16(d, p)
  ELSE IF mod = 1 THEN S8(d, p)
  ELSE IF mod = 2 THEN S16(d, p)
  ELSE 0

ModRMFail ==
  [ok |-> FALSE, reg_op |-> NoOperand, rm_op |-> NoOperand, reg |-> 0, pos |-> 0]

DecodeModRM(d, p, wide, so) ==
  IF ~CanRead(d, p, 1) THEN ModRMFail
  ELSE
    LET modrm == U8(d, p)
        mod == (modrm \div 64) % 4
        reg == (modrm \div 8) % 8
        rm == modrm % 8
        reg_op == IF wide THEN Reg16(reg) ELSE Reg8(reg)
    IN IF mod = 3
       THEN [ok |-> TRUE, reg_op |-> reg_op,
             rm_op |-> IF wide THEN Reg16(rm) ELSE Reg8(rm),
             reg |-> reg, pos |-> p + 1]
       ELSE IF ~CanRead(d, p + 1, DispLen(mod, rm)) THEN ModRMFail
       ELSE [ok |-> TRUE, reg_op |-> reg_op,
             rm_op |-> Mem(EaBase(mod, rm), EaIndex(mod, rm),
                           EaDisp(d, p + 1, mod, rm), EaSeg(mod, rm, so),
                           IF wide THEN 2 ELSE 1),
             reg |-> reg, pos |-> p + 1 + DispLen(mod, rm)]

(***************************************************************************)
(* decode16.py: Decoder.decode_one, the prefix loop                        *)
(***************************************************************************)
SegPrefixName(b) ==
  CASE b = \H26 -> "es" [] b = \H2E -> "cs" [] b = \H36 -> "ss" [] b = \H3E -> "ds"
    [] OTHER -> ""

RepPrefixName(b) ==
  CASE b = \HF2 -> "repnz" [] b = \HF3 -> "rep" [] OTHER -> ""

IsPrefixByte(b) == b \in {\H26, \H2E, \H36, \H3E, \HF2, \HF3, \HF0}

RECURSIVE PrefixLoop(_, _, _, _)
PrefixLoop(d, p, so, rep) ==
  IF p < Len(d) /\ IsPrefixByte(d[p + 1])
  THEN PrefixLoop(d, p + 1,
                  IF SegPrefixName(d[p + 1]) # "" THEN SegPrefixName(d[p + 1]) ELSE so,
                  IF RepPrefixName(d[p + 1]) # "" THEN RepPrefixName(d[p + 1]) ELSE rep)
  ELSE [pos |-> p, seg_override |-> so, rep_prefix |-> rep]

(***************************************************************************)
(* decode16.py: Decoder.decode_one, the opcode ladder.  The result of one  *)
(* arm is the mnemonic, the operands, the overlay payload and the cursor   *)
(* after the arm's reads; ok = FALSE is a read past the buffer             *)
(* (IndexError).                                                           *)
(***************************************************************************)
Res(mn, o1, o2, p) ==
  [ok |-> TRUE, mnemonic |-> mn, op1 |-> o1, op2 |-> o2, pos |-> p,
   overlay_num |-> -1, overlay_off |-> 0]

ResFail ==
  [ok |-> FALSE, mnemonic |-> "", op1 |-> NoOperand, op2 |-> NoOperand, pos |-> 0,
   overlay_num |-> -1, overlay_off |-> 0]

RmReg(mn, m) == IF m.ok THEN Res(mn, m.rm_op, m.reg_op, m.pos) ELSE ResFail

RegRm(mn, m) == IF m.ok THEN Res(mn, m.reg_op, m.rm_op, m.pos) ELSE ResFail

RmOnly(mn, m) == IF m.ok THEN Res(mn, m.rm_op, NoOperand, m.pos) ELSE ResFail

RmImm8(d, mn, m) ==
  IF m.ok /\ CanRead(d, m.pos, 1)
  THEN Res(mn, m.rm_op, Imm8(U8(d, m.pos), 1), m.pos + 1) ELSE ResFail

RmImm16(d, mn, m) ==
  IF m.ok /\ CanRead(d, m.pos, 2)
  THEN Res(mn, m.rm_op, Imm16(U16(d, m.pos)), m.pos + 2) ELSE ResFail

RmSImm8(d, mn, m) ==
  IF m.ok /\ CanRead(d, m.pos, 1)
  THEN Res(mn, m.rm_op, Imm8(Mask16(S8(d, m.pos)), 2), m.pos + 1) ELSE ResFail

OpImm8(d, p, mn, o1) ==
  IF CanRead(d, p, 1) THEN Res(mn, o1, Imm8(U8(d, p), 1), p + 1) ELSE ResFail

OpImm16(d, p, mn, o1) ==
  IF CanRead(d, p, 2) THEN Res(mn, o1, Imm16(U16(d, p)), p + 2) ELSE ResFail

Imm8Op(d, p, mn, o2) ==
  IF CanRead(d, p, 1) THEN Res(mn, Imm8(U8(d, p), 1), o2, p + 1) ELSE ResFail

OnlyImm16(d, p, mn) ==
  IF CanRead(d, p, 2) THEN Res(mn, Imm16(U16(d, p)), NoOperand, p + 2) ELSE ResFail

RelTargetNoWrap(p, rel) == p + rel

RelTarget(p, rel) == Mask16(p + rel)

JmpRel8(d, p, mn) ==
  IF CanRead(d, p, 1)
  THEN Res(mn, Rel8(RelTarget(p + 1, S8(d, p))), NoOperand, p + 1) ELSE ResFail

JmpRel16(d, p, mn) ==
  IF CanRead(d, p, 2)
  THEN Res(mn, Rel16(RelTarget(p + 2, S16(d, p))), NoOperand, p + 2) ELSE ResFail

FarImm(d, p, mn) ==
  IF CanRead(d, p, 4)
  THEN Res(mn, FarPtr(U16(d, p), U16(d, p + 2)), NoOperand, p + 4) ELSE ResFail

MoffsSeg(so) == IF so # "" THEN so ELSE "ds"

Int3FHasPayloadOffByOne(d, p) == p + 3 < Len(d)

Int3FHasPayload(d, p) == p + 2 < Len(d)

IntImm8(d, p) ==
  IF ~CanRead(d, p, 1) THEN ResFail
  ELSE IF U8(d, p) = \H3F /\ Int3FHasPayload(d, p + 1)
  THEN [Res("int", Imm8(U8(d, p), 1), NoOperand, p + 4) EXCEPT
          !.overlay_num = U8(d, p + 1), !.overlay_off = U16(d, p + 2)]
  ELSE Res("int", Imm8(U8(d, p), 1), NoOperand, p + 1)

AluArm(d, p, so, opcode) ==
  LET mnem == ALU_NAMES[(opcode \div 8) + 1]
      alu_sub == opcode % 8
  IN CASE alu_sub = 0 -> RmReg(mnem, DecodeModRM(d, p, FALSE, so))
       [] alu_sub = 1 -> RmReg(mnem, DecodeModRM(d, p, TRUE, so))
       [] alu_sub = 2 -> RegRm(mnem, DecodeModRM(d, p, FALSE, so))
       [] alu_sub = 3 -> RegRm(mnem, DecodeModRM(d, p, TRUE, so))
       [] alu_sub = 4 -> OpImm8(d, p, mnem, Reg8(0))
       [] OTHER -> OpImm16(d, p, mnem, Reg16(0))

Grp1Operands(d, opcode, m) ==
  LET wide == opcode \in {\H81, \H83}
      sign_ext == opcode \in {\H82, \H83}
  IN IF sign_ext /\ wide THEN RmSImm8(d, ALU_NAMES[m.reg + 1], m)
     ELSE IF wide THEN RmImm16(d, ALU_NAMES[m.reg + 1], m)
     ELSE RmImm8(d, ALU_NAMES[m.reg + 1], m)

Grp1Arm(d, p, so, opcode) ==
  Grp1Operands(d, opcode, DecodeModRM(d, p, opcode \in {\H81, \H83}, so))

ImulImmOperands(d, opcode, m) ==
  IF opcode = \H69
  THEN IF m.ok /\ CanRead(d, m.pos, 2)
       THEN Res("imul", m.reg_op, Imm16(U16(d, m.pos)), m.pos + 2) ELSE ResFail
  ELSE IF m.ok /\ CanRead(d, m.pos, 1)
       THEN Res("imul", m.reg_op, Imm8(Mask16(S8(d, m.pos)), 2), m.pos + 1)
       ELSE ResFail

ImulImmArm(d, p, so, opcode) ==
  ImulImmOperands(d, opcode, DecodeModRM(d, p, TRUE, so))

MovSregOperands(opcode, m) ==
  IF ~m.ok THEN ResFail
  ELSE IF opcode = \H8C THEN Res("mov", m.rm_op, SReg(m.reg % 4), m.pos)
  ELSE Res("mov", SReg(m.reg % 4), m.rm_op, m.pos)

MovSregArm(d, p, so, opcode) == MovSregOperands(opcode, DecodeModRM(d, p, TRUE, so))

ShiftOperands(d, opcode, m) ==
  IF opcode \in {\HC0, \HC1} THEN RmImm8(d, SHIFT_NAMES[m.reg + 1], m)
  ELSE IF ~m.ok THEN ResFail
  ELSE IF opcode \in {\HD2, \HD3}
       THEN Res(SHIFT_NAMES[m.reg + 1], m.rm_op, Reg8(1), m.pos)
  ELSE Res(SHIFT_NAMES[m.reg + 1], m.rm_op, Imm8(1, 1), m.pos)

ShiftArm(d, p, so, opcode) ==
  ShiftOperands(d, opcode, DecodeModRM(d, p, opcode \in {\HC1, \HD1, \HD3}, so))

EnterArm(d, p) ==
  IF CanRead(d, p, 3)
  THEN Res("enter", Imm16(U16(d, p)), Imm8(U8(d, p + 2), 1), p + 3) ELSE ResFail

Grp3Operands(d, opcode, m) ==
  IF m.reg <= 1
  THEN IF opcode = \HF7 THEN RmImm16(d, GRP3[m.reg + 1], m)
       ELSE RmImm8(d, GRP3[m.reg + 1], m)
  ELSE RmOnly(GRP3[m.reg + 1], m)

Grp3Arm(d, p, so, opcode) ==
  Grp3Operands(d, opcode, DecodeModRM(d, p, opcode = \HF7, so))

Grp45Operands(opcode, m) ==
  IF opcode = \HFE THEN RmOnly(GRP4[m.reg + 1], m)
  ELSE RmOnly(GRP5[m.reg + 1], m)

Grp45Arm(d, p, so, opcode) ==
  Grp45Operands(opcode, DecodeModRM(d, p, opcode = \HFF, so))

EscOperands(opcode, m) ==
  IF m.ok THEN Res(ESC_NAMES[opcode - \HD8 + 1], NoOperand, NoOperand, m.pos)
  ELSE ResFail

NoOperandMnemonic(opcode) ==
  CASE opcode = \H27 -> "daa"   [] opcode = \H2F -> "das"
    [] opcode = \H37 -> "aaa"   [] opcode = \H3F -> "aas"
    [] opcode = \H60 -> "pusha" [] opcode = \H61 -> "popa"
    [] opcode = \H90 -> "nop"
    [] opcode = \H98 -> "cbw"   [] opcode = \H99 -> "cwd"
    [] opcode = \H9B -> "wait"
    [] opcode = \H9C -> "pushf" [] opcode = \H9D -> "popf"
    [] opcode = \H9E -> "sahf"  [] opcode = \H9F -> "lahf"
    [] opcode = \HA4 -> "movsb" [] opcode = \HA5 -> "movsw"
    [] opcode = \HA6 -> "cmpsb" [] opcode = \HA7 -> "cmpsw"
    [] opcode = \HAA -> "stosb" [] opcode = \HAB -> "stosw"
    [] opcode = \HAC -> "lodsb" [] opcode = \HAD -> "lodsw"
    [] opcode = \HAE -> "scasb" [] opcode = \HAF -> "scasw"
    [] opcode = \HC3 -> "ret"   [] opcode = \HC9 -> "leave"
    [] opcode = \HCB -> "retf"  [] opcode = \HCE -> "into"
    [] opcode = \HCF -> "iret"  [] opcode = \HD7 -> "xlat"
    [] opcode = \HF4 -> "hlt"   [] opcode = \HF5 -> "cmc"
    [] opcode = \HF8 -> "clc"   [] opcode = \HF9 -> "stc"
    [] opcode = \HFA -> "cli"   [] opcode = \HFB -> "sti"
    [] opcode = \HFC -> "cld"   [] opcode = \HFD -> "std"
    [] OTHER -> ""

DecodeOpcode(d, p, so, opcode) ==
  CASE opcode <= \H3F /\ opcode % 8 <= 5 -> AluArm(d, p, so, opcode)
    [] opcode \in {\H06, \H0E, \H16, \H1E} ->
         Res("push", SReg((opcode \div 8) % 4), NoOperand, p)
    [] opcode \in {\H07, \H17, \H1F} ->
         Res("pop", SReg((opcode \div 8) % 4), NoOperand, p)
    [] NoOperandMnemonic(opcode) # "" ->
         Res(NoOperandMnemonic(opcode), NoOperand, NoOperand, p)
    [] opcode \in \H40..\H47 -> Res("inc", Reg16(opcode - \H40), NoOperand, p)
    [] opcode \in \H48..\H4F -> Res("dec", Reg16(opcode - \H48), NoOperand, p)
    [] opcode \in \H50..\H57 -> Res("push", Reg16(opcode - \H50), NoOperand, p)
    [] opcode \in \H58..\H5F -> Res("pop", Reg16(opcode - \H58), NoOperand, p)
    [] opcode = \H68 -> OnlyImm16(d, p, "push")
    [] opcode \in {\H69, \H6B} -> ImulImmArm(d, p, so, opcode)
    [] opcode = \H6A ->
         IF CanRead(d, p, 1)
         THEN Res("push", Imm8(Mask16(S8(d, p)), 2), NoOperand, p + 1) ELSE ResFail
    [] opcode \in \H70..\H7F -> JmpRel8(d, p, CC_NAMES[opcode - \H70 + 1])
    [] opcode \in \H80..\H83 -> Grp1Arm(d, p, so, opcode)
    [] opcode = \H84 -> RmReg("test", DecodeModRM(d, p, FALSE, so))
    [] opcode = \H85 -> RmReg("test", DecodeModRM(d, p, TRUE, so))
    [] opcode = \H86 -> RmReg("xchg", DecodeModRM(d, p, FALSE, so))
    [] opcode = \H87 -> RmReg("xchg", DecodeModRM(d, p, TRUE, so))
    [] opcode = \H88 -> RmReg("mov", DecodeModRM(d, p, FALSE, so))
    [] opcode = \H89 -> RmReg("mov", DecodeModRM(d, p, TRUE, so))
    [] opcode = \H8A -> RegRm("mov", DecodeModRM(d, p, FALSE, so))
    [] opcode = \H8B -> RegRm("mov", DecodeModRM(d, p, TRUE, so))
    [] opcode \in {\H8C, \H8E} -> MovSregArm(d, p, so, opcode)
    [] opcode = \H8D -> RegRm("lea", DecodeModRM(d, p, TRUE, so))
    [] opcode = \H8F -> RmOnly("pop", DecodeModRM(d, p, TRUE, so))
    [] opcode \in \H91..\H97 -> Res("xchg", Reg16(0), Reg16(opcode - \H90), p)
    [] opcode = \H9A -> FarImm(d, p, "call")
    [] opcode \in {\HA0, \HA1} ->
         IF CanRead(d, p, 2)
         THEN Res("mov", IF opcode = \HA0 THEN Reg8(0) ELSE Reg16(0),
                  Moffs(U16(d, p), MoffsSeg(so), IF opcode = \HA0 THEN 1 ELSE 2), p + 2)
         ELSE ResFail
    [] opcode \in {\HA2, \HA3} ->
         IF CanRead(d, p, 2)
         THEN Res("mov", Moffs(U16(d, p), MoffsSeg(so), IF opcode = \HA2 THEN 1 ELSE 2),
                  IF opcode = \HA2 THEN Reg8(0) ELSE Reg16(0), p + 2)
         ELSE ResFail
    [] opcode = \HA8 -> OpImm8(d, p, "test", Reg8(0))
    [] opcode = \HA9 -> OpImm16(d, p, "test", Reg16(0))
    [] opcode \in \HB0..\HB7 -> OpImm8(d, p, "mov", Reg8(opcode - \HB0))
    [] opcode \in \HB8..\HBF -> OpImm16(d, p, "mov", Reg16(opcode - \HB8))
    [] opcode \in {\HC0, \HC1, \HD0, \HD1, \HD2, \HD3} -> ShiftArm(d, p, so, opcode)
    [] opcode = \HC2 -> OnlyImm16(d, p, "ret")
    [] opcode = \HC4 -> RegRm("les", DecodeModRM(d, p, TRUE, so))
    [] opcode = \HC5 -> RegRm("lds", DecodeModRM(d, p, TRUE, so))
    [] opcode = \HC6 -> RmImm8(d, "mov", DecodeModRM(d, p, FALSE, so))
    [] opcode = \HC7 -> RmImm16(d, "mov", DecodeModRM(d, p, TRUE, so))
    [] opcode = \HC8 -> EnterArm(d, p)
    [] opcode = \HCA -> OnlyImm16(d, p, "retf")
    [] opcode = \HCC -> Res("int", Imm8(3, 1), NoOperand, p)
    [] opcode = \HCD -> IntImm8(d, p)
    [] opcode \in {\HD4, \HD5} ->
         IF CanRead(d, p, 1)
         THEN Res(IF opcode = \HD4 THEN "aam" ELSE "aad", NoOperand, NoOperand, p + 1)
         ELSE ResFail
    [] opcode \in \HD8..\HDF -> EscOperands(opcode, DecodeModRM(d, p, FALSE, so))
    [] opcode = \HE0 -> JmpRel8(d, p, "loopnz")
    [] opcode = \HE1 -> JmpRel8(d, p, "loopz")
    [] opcode = \HE2 -> JmpRel8(d, p, "loop")
    [] opcode = \HE3 -> JmpRel8(d, p, "jcxz")
    [] opcode = \HE4 -> OpImm8(d, p, "in", Reg8(0))
    [] opcode = \HE5 -> OpImm8(d, p, "in", Reg16(0))
    [] opcode = \HE6 -> Imm8Op(d, p, "out", Reg8(0))
    [] opcode = \HE7 -> Imm8Op(d, p, "out", Reg16(0))
    [] opcode = \HE8 -> JmpRel16(d, p, "call")
    [] opcode = \HE9 -> JmpRel16(d, p, "jmp")
    [] opcode = \HEA -> FarImm(d, p, "jmp")
    [] opcode = \HEB -> JmpRel8(d, p, "jmp")
    [] opcode = \HEC -> Res("in", Reg8(0), Reg16(2), p)
    [] opcode = \HED -> Res("in", Reg16(0), Reg16(2), p)
    [] opcode = \HEE -> Res("out", Reg16(2), Reg8(0), p)
    [] opcode = \HEF -> Res("out", Reg16(2), Reg16(0), p)
    [] opcode \in {\HF6, \HF7} -> Grp3Arm(d, p, so, opcode)
    [] opcode \in {\HFE, \HFF} -> Grp45Arm(d, p, so, opcode)
    [] OTHER -> Res("db", Imm8(opcode, 1), NoOperand, p)

(***************************************************************************)
(* decode16.py: Decoder.decode_one.  The outcome is an instruction         *)
(* ("inst"), end of stream ("none", the method returns None) or a raised   *)
(* exception, named by its Python class; pos is the cursor the call        *)
(* leaves behind.                                                          *)
(***************************************************************************)
FinishInstOpcodeOnly(inst, d, start, p) ==
  [inst EXCEPT !.length = p - PrefixLoop(d, start, "", "").pos,
               !.raw = SubSeq(d, start + 1, p)]

FinishInst(inst, d, start, p) ==
  [inst EXCEPT !.length = p - start, !.raw = SubSeq(d, start + 1, p)]

\* the instruction built from the prefix loop's result pl and the arm's result r
DecodedInst(d, b, p0, pl, r) ==
  IF ~r.ok THEN [kind |-> "IndexError", pos |-> pl.pos, inst |-> Instruction]
  ELSE [kind |-> "inst", pos |-> r.pos,
        inst |-> FinishInst(
                   [Instruction EXCEPT
                      !.offset = b + p0, !.address = p0,
                      !.seg_override = pl.seg_override, !.prefix = pl.rep_prefix,
                      !.mnemonic = r.mnemonic, !.op1 = r.op1, !.op2 = r.op2,
                      !.overlay_num = r.overlay_num, !.overlay_off = r.overlay_off],
                   d, p0, r.pos)]

DecodeAfterPrefixes(d, b, p0, pl) ==
  IF pl.pos >= Len(d) THEN [kind |-> "none", pos |-> pl.pos, inst |-> Instruction]
  ELSE DecodedInst(d, b, p0, pl,
                   DecodeOpcode(d, pl.pos + 1, pl.seg_override, U8(d, pl.pos)))

DecodeOne(d, b, p0) ==
  IF p0 >= Len(d) THEN [kind |-> "none", pos |-> p0, inst |-> Instruction]
  ELSE DecodeAfterPrefixes(d, b, p0, PrefixLoop(d, p0, "", ""))

(***************************************************************************)
(* decode16.py: Decoder.decode_range, the except clause                    *)
(***************************************************************************)
CaughtKeyErrorOnly == {"KeyError"}

Caught == {"IndexError", "KeyError"}

FallbackInst(d, b, saved) ==
  [Instruction EXCEPT
     !.offset = b + saved, !.address = saved, !.mnemonic = "db",
     !.op1 = Imm8(IF saved < Len(d) THEN d[saved + 1] ELSE 0, 1),
     !.raw = SubSeq(d, saved + 1, IF saved + 1 <= Len(d) THEN saved + 1 ELSE Len(d)),
     !.length = 1]

FallbackPos(saved) == saved + 1

(***************************************************************************)
(* decode16.py: Decoder.decode_range and decode_all as functions of the    *)
(* buffer: the list the loop returns (for the callers in analyze.py).      *)
(***************************************************************************)
RECURSIVE DecodeRangeFrom(_, _, _, _, _)
RECURSIVE DecodeRangeIter(_, _, _, _, _, _)
DecodeRangeIter(d, b, p, end, acc, r) ==
  IF r.kind = "inst" THEN DecodeRangeFrom(d, b, r.pos, end, Append(acc, r.inst))
  ELSE IF r.kind \in Caught
  THEN DecodeRangeFrom(d, b, FallbackPos(p), end, Append(acc, FallbackInst(d, b, p)))
  ELSE acc

DecodeRangeFrom(d, b, p, end, acc) ==
  IF p < end THEN DecodeRangeIter(d, b, p, end, acc, DecodeOne(d, b, p)) ELSE acc

DecodeRange(d, b, start, end) == DecodeRangeFrom(d, b, start, end, <<>>)

DecodeAll(d, b) == DecodeRange(d, b, 0, Len(d))

(***************************************************************************)
(* The decoder as a state machine: a Decoder over (data, base), its cursor *)
(* pos, and one decode_range call in progress (pc = "loop") or returned    *)
(* (pc = "done") with its result in instructions; pc = "raised" is an      *)
(* exception that left decode_range.                                       *)
(***************************************************************************)
BuffersOver(alphabet, maxLen) == UNION {[1..n -> alphabet] : n \in 0..maxLen}

InitDecoder(alphabet, maxLen, bases) ==
  /\ data \in BuffersOver(alphabet, maxLen)
  /\ base \in bases
  /\ pos = 0
  /\ rangeStart = 0
  /\ rangeEnd = 0
  /\ instructions = <<>>
  /\ pc = "idle"
  /\ fileData = <<>>
  /\ hdr_size = 0
  /\ img_size = 0
  /\ overlays = <<>>
  /\ functions = <<>>
  /\ strings = <<>>
  /\ apc = "none"
  /\ NoLifter
  /\ NoResolver

\* a decode_range that appends to the list of the sweep before
CallDecodeRangeKeepingList ==
  /\ pc \in {"idle", "done"}
  /\ \E start \in 0..Len(data) : \E end \in start..Len(data) :
       /\ rangeStart' = start
       /\ rangeEnd' = end
       /\ pos' = start
  /\ instructions' = instructions
  /\ pc' = "loop"
  /\ UNCHANGED <<data, base, avars, lvars, rvars>>

\* decode_range(start, end) is called: lines 752-753
CallDecodeRange ==
  /\ pc \in {"idle", "done"}
  /\ \E start \in 0..Len(data) : \E end \in start..Len(data) :
       /\ rangeStart' = start
       /\ rangeEnd' = end
       /\ pos' = start
  /\ instructions' = <<>>
  /\ pc' = "loop"
  /\ UNCHANGED <<data, base, avars, lvars, rvars>>

\* one iteration in which decode_one returns an instruction
StepDecoded ==
  /\ pc = "loop"
  /\ pos < rangeEnd
  /\ \E r \in {DecodeOne(data, base, pos)} :
        /\ r.kind = "inst"
        /\ instructions' = Append(instructions, r.inst)
        /\ pos' = r.pos
  /\ UNCHANGED <<data, base, rangeStart, rangeEnd, pc, avars, lvars, rvars>>

\* one iteration in which decode_one raises
StepRaised ==
  /\ pc = "loop"
  /\ pos < rangeEnd
  /\ \E r \in {DecodeOne(data, base, pos)} :
        /\ r.kind \notin {"inst", "none"}
        /\ IF r.kind \in Caught
           THEN /\ instructions' = Append(instructions, FallbackInst(data, base, pos))
                /\ pos' = FallbackPos(pos)
                /\ pc' = pc
           ELSE /\ instructions' = instructions
                /\ pos' = r.pos
                /\ pc' = "raised"
  /\ UNCHANGED <<data, base, rangeStart, rangeEnd, avars, lvars, rvars>>

\* one iteration in which decode_one returns None: break
StepNone ==
  /\ pc = "loop"
  /\ pos < rangeEnd
  /\ \E r \in {DecodeOne(data, base, pos)} :
        /\ r.kind = "none"
        /\ pos' = r.pos
  /\ pc' = "done"
  /\ UNCHANGED <<data, base, rangeStart, rangeEnd, instructions, avars, lvars, rvars>>

\* the loop condition fails: return instructions
LoopExit ==
  /\ pc = "loop"
  /\ pos >= rangeEnd
  /\ pc' = "done"
  /\ UNCHANGED <<data, base, pos, rangeStart, rangeEnd, instructions, avars, lvars, rvars>>

Next == CallDecodeRange \/ StepDecoded \/ StepRaised \/ StepNone \/ LoopExit

AlphabetSweep == {\H26, \H0F, \HCD, \H3F, \H8B}

Spec == InitDecoder(AlphabetSweep, MaxLen, {0}) /\ [][Next]_vars

\* buffers of branches: jne, loop, jcxz, call near, jmp near, jmp short, with
\* add ax,imm16 and an es: prefix; every byte also serves as a delta byte
AlphabetBranch == {\H75, \HE2, \HE3, \HE8, \HE9, \HEB, \H05, \H26}

SpecBranch ==
  InitDecoder(AlphabetBranch, MaxLenBranch, {0, \H100}) /\ [][Next]_vars

\* buffers of ModR/M forms: mov r16,rm16 (8B), xchg r8,rm8 (86), mov ax,moffs
\* (A1), inc si (46), add al,imm8 (04), with an es: and a rep prefix.  Read as
\* ModR/M bytes: 26 = mod 0 rm 6, 46 = mod 1 rm 6, 86 = mod 2 rm 6,
\* 04 = [si], A1 = [bx+di+d16], 8B = [bp+di+d16], F3 = register
AlphabetModRM == {\H8B, \H26, \HF3, \H46, \H86, \H04, \HA1}

SpecModRM == InitDecoder(AlphabetModRM, MaxLenModRM, {0}) /\ [][Next]_vars

(***************************************************************************)
(* Vocabulary of the claims about the decoder                              *)
(***************************************************************************)
RECURSIVE SumLengths(_)
SumLengths(s) == IF s = <<>> THEN 0 ELSE s[1].length + SumLengths(Tail(s))

\* the number of prefix bytes an instruction's raw bytes begin with
RECURSIVE LeadingPrefixes(_)
LeadingPrefixes(raw) ==
  IF raw # <<>> /\ IsPrefixByte(raw[1]) THEN 1 + LeadingPrefixes(Tail(raw)) ELSE 0

HasOpcode(inst) == LeadingPrefixes(inst.raw) < Len(inst.raw)

\* the first non-prefix byte of an instruction that has one
PrimaryOpcode(inst) == inst.raw[LeadingPrefixes(inst.raw) + 1]

\* the primary opcodes no arm of the ladder takes (they reach its final else)
UnhandledOpcodes == {\H0F} \cup (\H62..\H67) \cup (\H6C..\H6F) \cup {\HD6, \HF1}

Insts == {instructions[i] : i \in 1..Len(instructions)}

ZeroPad == <<0, 0, 0, 0, 0, 0>>

\* The bytes left in the buffer at cursor p do not complete the instruction
\* that starts there: decoded with bytes appended to the buffer, the
\* instruction reads past the buffer's real end.
Truncated(d, p) ==
  \E r \in {DecodeOne(d \o ZeroPad, 0, p)} : r.kind = "inst" /\ r.pos > Len(d)

(***************************************************************************)
(* C1: at the return of decode_range(start, end) on a range inside the     *)
(* buffer, the instructions are contiguous from start (each begins where   *)
(* the previous one ended) and their lengths sum to end - start.           *)
(***************************************************************************)
C1_SweepCoversRange ==
  pc = "done" =>
    /\ \A i \in 1..Len(instructions) :
         instructions[i].offset =
           base + rangeStart + SumLengths(SubSeq(instructions, 1, i - 1))
    /\ SumLengths(instructions) = rangeEnd - rangeStart

(***************************************************************************)
(* C2: every instruction a loop iteration appends, from decode_one or from *)
(* the fallback, records as its length the distance the cursor moved in    *)
(* that iteration (prefix bytes included) and as its raw bytes the bytes   *)
(* between the two cursor positions.                                       *)
(***************************************************************************)
C2_LengthIsCursorAdvance ==
  [][Len(instructions') = Len(instructions) + 1 =>
       /\ instructions'[Len(instructions')].length = pos' - pos
       /\ instructions'[Len(instructions')].raw = SubSeq(data, pos + 1, pos')]_vars

\* a sweep that produced a prefixed instruction of three bytes from decode_one
\* and, after it, a fallback byte (8B is a handled opcode: db 8B is a fallback)
C2_Witness ==
  /\ pc = "done"
  /\ \E i \in 1..Len(instructions) : \E j \in 1..Len(instructions) :
       /\ i < j
       /\ instructions[i].mnemonic = "int"
       /\ instructions[i].seg_override = "es"
       /\ instructions[i].length = 3
       /\ instructions[j].mnemonic = "db"
       /\ instructions[j].op1.disp = \H8B

(***************************************************************************)
(* C3: every iteration of the sweep's loop either advances the cursor by   *)
(* at least one byte (never past the buffer's end) or ends the sweep, and  *)
(* no exception leaves decode_range.                                       *)
(***************************************************************************)
C3_SweepAdvancesAndNeverRaises ==
  [][pc = "loop" =>
       /\ pos' > pos \/ pc' = "done"
       /\ pos' <= Len(data)
       /\ pc' # "raised"]_vars

\* a finished sweep in which an IndexError was absorbed twice
C3_Witness ==
  /\ pc = "done"
  /\ rangeEnd = Len(data)
  /\ Len(instructions) >= 3
  /\ instructions[Len(instructions)].mnemonic = "db"
  /\ instructions[Len(instructions)].op1.disp = \H8B
  /\ instructions[Len(instructions) - 1].mnemonic = "db"
  /\ instructions[Len(instructions) - 1].op1.disp = \H8B

(***************************************************************************)
(* C4: whenever the bytes left in the buffer are too few to complete the   *)
(* instruction at the cursor, the iteration appends exactly one 'db' of    *)
(* length 1 for the byte at the cursor and the sweep continues at the next *)
(* byte.                                                                   *)
(***************************************************************************)
C4_TruncationEmitsDb ==
  [][pc = "loop" /\ pos < rangeEnd /\ Truncated(data, pos) =>
       /\ Len(instructions') = Len(instructions) + 1
       /\ instructions'[Len(instructions')].mnemonic = "db"
       /\ instructions'[Len(instructions')].length = 1
       /\ instructions'[Len(instructions')].op1 = Imm8(data[pos + 1], 1)
       /\ pos' = pos + 1
       /\ pc' = "loop"]_vars

(***************************************************************************)
(* C5: an instruction whose primary opcode byte is one the decoder does    *)
(* not handle is 'db' with length exactly 1 and that byte as operand,      *)
(* whatever prefix bytes precede the opcode.                               *)
(***************************************************************************)
C5_UnknownOpcodeIsOneByteDb ==
  \A inst \in Insts :
    HasOpcode(inst) /\ PrimaryOpcode(inst) \in UnhandledOpcodes =>
      /\ inst.mnemonic = "db"
      /\ inst.length = 1
      /\ inst.op1 = Imm8(PrimaryOpcode(inst), 1)

(***************************************************************************)
(* C6: wherever an instruction starts at bytes CD 3F m lo hi, it is one    *)
(* 'int' of length 5 with overlay_num = m and overlay_off = lo + 256*hi;   *)
(* every instruction that is not an INT 3Fh has overlay_num = -1.          *)
(***************************************************************************)
StartsOverlayTrap(inst) ==
  /\ inst.address + 5 <= Len(data)
  /\ data[inst.address + 1] = \HCD
  /\ data[inst.address + 2] = \H3F

C6_OverlayTrap ==
  \A inst \in Insts :
    /\ StartsOverlayTrap(inst) =>
         /\ inst.mnemonic = "int"
         /\ inst.length = 5
         /\ inst.overlay_num = data[inst.address + 3]
         /\ inst.overlay_off = data[inst.address + 4] + 256 * data[inst.address + 5]
    /\ ~(inst.mnemonic = "int" /\ inst.op1.disp = \H3F) => inst.overlay_num = -1

\* a sweep holding a five-byte overlay trap that ends the buffer
C6_Witness ==
  /\ pc = "done"
  /\ \E inst \in Insts :
       /\ StartsOverlayTrap(inst)
       /\ inst.address + 5 = Len(data)
       /\ inst.overlay_num = \H8B
       /\ inst.overlay_off = \H0F + 256 * \H26
(***************************************************************************)
(* C7: the target stored by every Jcc, LOOP/LOOPZ/LOOPNZ, JCXZ, short JMP, *)
(* near JMP and near CALL is the position of the following instruction     *)
(* plus the sign-extended delta, modulo 0x10000, where positions are       *)
(* counted from the start of the decoder's buffer (Instruction.address):   *)
(* the decoder's base offset is not part of the stored target.             *)
(***************************************************************************)
Rel8Opcodes == (\H70..\H7F) \cup (\HE0..\HE3) \cup {\HEB}

Rel16Opcodes == {\HE8, \HE9}

IsBranch(inst) ==
  /\ inst.mnemonic # "db"
  /\ HasOpcode(inst)
  /\ PrimaryOpcode(inst) \in Rel8Opcodes \cup Rel16Opcodes

\* the sign-extended delta, read back from the instruction's last raw bytes
Delta(inst) ==
  IF PrimaryOpcode(inst) \in Rel8Opcodes
  THEN S8(inst.raw, Len(inst.raw) - 1)
  ELSE S16(inst.raw, Len(inst.raw) - 2)

C7_TargetIsBufferRelative ==
  \A inst \in Insts :
    IsBranch(inst) =>
      /\ inst.op1.type = IF PrimaryOpcode(inst) \in Rel8Opcodes THEN "REL8" ELSE "REL16"
      /\ inst.op1.disp = (inst.address + inst.length + Delta(inst)) % 65536

\* C7 as stated: the following instruction's position is taken from the
\* offset the decoder reports (Instruction.offset, base offset included)
C7_TargetIncludesBase ==
  \A inst \in Insts :
    IsBranch(inst) =>
      inst.op1.disp = (inst.offset + inst.length + Delta(inst)) % 65536

\* a sweep over EB 05 EB EB in a decoder whose base offset is 0x100: the first
\* jump is reported at 0x100 and stores 7, the second wraps below zero
C7_Witness ==
  /\ pc = "done"
  /\ base = \H100
  /\ Len(instructions) = 2
  /\ instructions[1].raw = <<\HEB, \H05>>
  /\ instructions[1].offset = \H100
  /\ instructions[1].op1.disp = 7
  /\ instructions[2].raw = <<\HEB, \HEB>>
  /\ instructions[2].op1.disp = 65536 + 4 - 21
(***************************************************************************)
(* The ModR/M byte of an instruction that has a memory operand is the byte *)
(* after its opcode; mod is its top two bits and rm its low three.         *)
(***************************************************************************)
ModRMByte(inst) == inst.raw[LeadingPrefixes(inst.raw) + 2]

ModOf(inst) == ModRMByte(inst) \div 64

RmOf(inst) == ModRMByte(inst) % 8

Operands(inst) == {inst.op1, inst.op2}

HasMem(inst) == \E op \in Operands(inst) : op.type = "MEM"

(***************************************************************************)
(* C8: a memory operand decoded from a ModR/M byte with rm = 6 has no base *)
(* and no index register when mod = 0 (the direct-address form); when mod  *)
(* is 1 or 2 its base register is bp and it has no index register.         *)
(***************************************************************************)
C8_Rm6BaseByMod ==
  \A inst \in Insts : \A op \in Operands(inst) :
    op.type = "MEM" /\ RmOf(inst) = 6 =>
      /\ ModOf(inst) \in {0, 1, 2}
      /\ op.index = ""
      /\ op.base = IF ModOf(inst) = 0 THEN "" ELSE "bp"

\* C8 as stated: no base and no index for every mod in {0, 1, 2} with rm = 6
C8_Rm6NoBaseNoIndex ==
  \A inst \in Insts : \A op \in Operands(inst) :
    op.type = "MEM" /\ RmOf(inst) = 6 /\ ModOf(inst) \in {0, 1, 2} =>
      op.base = "" /\ op.index = ""

\* a finished sweep holding 8B 46 04, mov ax,[bp+4]: mod 1, rm 6, base bp
C8_Witness ==
  /\ pc = "done"
  /\ \E inst \in Insts :
       /\ inst.raw = <<\H8B, \H46, \H04>>
       /\ ModOf(inst) = 1 /\ RmOf(inst) = 6
       /\ inst.op2.type = "MEM"
       /\ inst.op2.base = "bp"
       /\ inst.op2.index = ""
       /\ inst.op2.disp = 4

(***************************************************************************)
(* C9: a memory operand's segment is the segment override among its own    *)
(* instruction's prefix bytes if there is one, otherwise ss when the       *)
(* addressing form uses bp and ds in every other form (the mod = 0, rm = 6 *)
(* direct form and the moffs form included); an instruction's seg_override *)
(* and prefix fields are those of its own prefix bytes, so nothing is      *)
(* carried from one instruction of a sweep to a later one.                 *)
(***************************************************************************)
SegPrefixBytes == {\H26, \H2E, \H36, \H3E}

RepPrefixBytes == {\HF2, \HF3}

\* the last byte of the set among the instruction's leading prefix bytes, or 0
LastPrefixIn(inst, bytes) ==
  LET at == {i \in 1..LeadingPrefixes(inst.raw) : inst.raw[i] \in bytes}
  IN IF at = {} \/ ~HasOpcode(inst) THEN 0
     ELSE inst.raw[CHOOSE i \in at : \A j \in at : j <= i]

OwnSegOverride(inst) == SegPrefixName(LastPrefixIn(inst, SegPrefixBytes))

OwnRepPrefix(inst) == RepPrefixName(LastPrefixIn(inst, RepPrefixBytes))

UsesBP(inst) == RmOf(inst) \in {2, 3} \/ (RmOf(inst) = 6 /\ ModOf(inst) # 0)

C9_SegmentIsOwnOverrideOrDefault ==
  \A inst \in Insts :
    /\ inst.seg_override = OwnSegOverride(inst)
    /\ inst.prefix = OwnRepPrefix(inst)
    /\ \A op \in Operands(inst) :
         /\ op.type = "MEM" =>
              op.seg = IF OwnSegOverride(inst) # "" THEN OwnSegOverride(inst)
                       ELSE IF UsesBP(inst) THEN "ss" ELSE "ds"
         /\ op.type = "MOFFS" =>
              op.seg = IF OwnSegOverride(inst) # "" THEN OwnSegOverride(inst)
                       ELSE "ds"

\* a sweep over 26 8B 04 | 8B 04: mov ax,es:[si] and then mov ax,ds:[si],
\* the second with no override
C9_Witness ==
  /\ pc = "done"
  /\ Len(instructions) = 2
  /\ instructions[1].raw = <<\H26, \H8B, \H04>>
  /\ instructions[1].seg_override = "es"
  /\ instructions[1].op2.seg = "es"
  /\ instructions[2].raw = <<\H8B, \H04>>
  /\ instructions[2].seg_override = ""
  /\ instructions[2].op2.type = "MEM"
  /\ instructions[2].op2.seg = "ds"
(***************************************************************************)
(* analyze.py: Function and OverlayInfo.  An entry of Function.calls is a  *)
(* Python int (a near-call target) or a (segment, offset) tuple; near      *)
(* tells the two apart, as isinstance(target, int) does.  The Function     *)
(* objects an OverlayInfo.functions list refers to are the objects in      *)
(* Analyzer.functions; the references are modelled by their positions in   *)
(* that list.                                                              *)
(***************************************************************************)
Function ==
  [name |-> "", start |-> 0, end |-> 0, size |-> 0, local_size |-> 0,
   is_far |-> FALSE, is_overlay |-> FALSE, overlay_num |-> 0,
   calls |-> <<>>, called_by |-> <<>>, ovl_calls |-> <<>>, inst_count |-> 0,
   category |-> ""]

OverlayInfo ==
  [index |-> 0, file_offset |-> 0, code_offset |-> 0, code_size |-> 0,
   functions |-> <<>>]

NearCall(target) == [near |-> TRUE, target |-> target, seg |-> 0]

FarCall(far_seg, disp) == [near |-> FALSE, target |-> disp, seg |-> far_seg]

(***************************************************************************)
(* analyze.py: Analyzer.__init__, the fields parsed from the MZ header     *)
(***************************************************************************)
HdrSize(d) == U16(d, 8) * 16

ImgSize(d) ==
  IF U16(d, 2) # 0 THEN (U16(d, 4) - 1) * 512 + U16(d, 2) ELSE U16(d, 4) * 512

(***************************************************************************)
(* analyze.py: Analyzer.find_overlays                                      *)
(***************************************************************************)
\* (img_size + 0x1FF) & ~0x1FF
AlignUp512(v) == ((v + 511) \div 512) * 512

IsOverlayHeader(d, scan) ==
  /\ U8(d, scan) = \H4D /\ U8(d, scan + 1) = \H5A
  /\ 0 < U16(d, scan + 4) /\ U16(d, scan + 4) < 500
  /\ 0 < U16(d, scan + 8) /\ U16(d, scan + 8) < 100

OverlayImgSize(op, olp) == IF olp # 0 THEN (op - 1) * 512 + olp ELSE op * 512

\* a scan that numbers a module by the 512-byte block it starts in
OverlayAtBlockNumber(d, scan, index) ==
  [OverlayInfo EXCEPT
     !.index = scan \div 512,
     !.file_offset = scan,
     !.code_offset = scan + U16(d, scan + 8) * 16,
     !.code_size = OverlayImgSize(U16(d, scan + 4), U16(d, scan + 2))
                     - U16(d, scan + 8) * 16]

OverlayAt(d, scan, index) ==
  [OverlayInfo EXCEPT
     !.index = index,
     !.file_offset = scan,
     !.code_offset = scan + U16(d, scan + 8) * 16,
     !.code_size = OverlayImgSize(U16(d, scan + 4), U16(d, scan + 2))
                     - U16(d, scan + 8) * 16]

\* the while loop: found holds the overlays appended so far, index = Len(found)
RECURSIVE ScanOverlays(_, _, _)
ScanOverlays(d, scan, found) ==
  IF scan + 28 < Len(d)
  THEN ScanOverlays(d, scan + 512,
                    IF IsOverlayHeader(d, scan)
                    THEN Append(found, OverlayAt(d, scan, Len(found) + 1))
                    ELSE found)
  ELSE found

FoundOverlays(d, imgSize) == ScanOverlays(d, AlignUp512(imgSize), <<>>)

(***************************************************************************)
(* analyze.py: Analyzer._detect_functions_in_range                         *)
(***************************************************************************)
\* the Python slice d[a:b] for a, b >= 0
Slice(d, a, b) == SubSeq(d, a + 1, IF b < Len(d) THEN b ELSE Len(d))

IsReg16(op, r) == op.type = "REG16" /\ op.reg = r

IsProloguePushOnly(insts, i) ==
  /\ insts[i].mnemonic = "push"
  /\ IsReg16(insts[i].op1, 5)

\* PUSH BP followed by MOV BP, SP
IsPrologue(insts, i) ==
  /\ insts[i].mnemonic = "push"
  /\ IsReg16(insts[i].op1, 5)
  /\ i + 1 <= Len(insts)
  /\ insts[i + 1].mnemonic = "mov"
  /\ IsReg16(insts[i + 1].op1, 5)
  /\ IsReg16(insts[i + 1].op2, 4)

\* SUB SP, N as the third instruction of a function
IsFrameAlloc(insts, i) ==
  /\ i + 2 <= Len(insts)
  /\ insts[i + 2].mnemonic = "sub"
  /\ IsReg16(insts[i + 2].op1, 4)
  /\ insts[i + 2].op2.type \in {"IMM8", "IMM16"}

OpenFunction(insts, i, overlay_num) ==
  [Function EXCEPT
     !.start = insts[i].offset,
     !.overlay_num = overlay_num,
     !.is_overlay = overlay_num > 0,
     !.local_size = IF IsFrameAlloc(insts, i) THEN insts[i + 2].op2.disp ELSE 0]

CloseFunctionSizeOnly(f, end) == [f EXCEPT !.size = end - f.start]

CloseFunction(f, end) == [f EXCEPT !.end = end, !.size = end - f.start]

\* the near-call target: relative to the code range
NearTarget(start, inst) == start + inst.op1.disp

TrackInstructionCallsOnly(f, inst, start) ==
  [f EXCEPT
     !.inst_count = IF inst.mnemonic = "call" THEN @ + 1 ELSE @,
     !.calls =
        IF inst.mnemonic = "call" /\ inst.op1.type = "REL16"
        THEN Append(@, NearCall(NearTarget(start, inst)))
        ELSE IF inst.mnemonic = "call" /\ inst.op1.type = "FAR"
        THEN Append(@, FarCall(inst.op1.far_seg, inst.op1.disp))
        ELSE @]

\* what one instruction adds to the function it is counted in
TrackInstruction(f, inst, start) ==
  [f EXCEPT
     !.inst_count = @ + 1,
     !.calls =
        IF inst.mnemonic = "call" /\ inst.op1.type = "REL16"
        THEN Append(@, NearCall(NearTarget(start, inst)))
        ELSE IF inst.mnemonic = "call" /\ inst.op1.type = "FAR"
        THEN Append(@, FarCall(inst.op1.far_seg, inst.op1.disp))
        ELSE @,
     !.ovl_calls =
        IF inst.mnemonic = "int" /\ inst.overlay_num >= 0
        THEN Append(@, <<inst.overlay_num, inst.overlay_off>>)
        ELSE @,
     !.is_far = @ \/ inst.mnemonic = "retf"]

\* the while loop over the instructions; has = (current_func is not None)
RECURSIVE DetectLoop(_, _, _, _, _, _, _)
DetectLoop(insts, i, start, overlay_num, funcs, cur, has) ==
  IF i > Len(insts) THEN [funcs |-> funcs, cur |-> cur, has |-> has]
  ELSE IF IsPrologue(insts, i)
  THEN DetectLoop(insts, i + 1, start, overlay_num,
                  IF has THEN Append(funcs, CloseFunction(cur, insts[i].offset))
                  ELSE funcs,
                  TrackInstruction(OpenFunction(insts, i, overlay_num), insts[i], start),
                  TRUE)
  ELSE DetectLoop(insts, i + 1, start, overlay_num, funcs,
                  IF has THEN TrackInstruction(cur, insts[i], start) ELSE cur,
                  has)

\* close the last function
CloseLast(r, end) ==
  IF r.has THEN Append(r.funcs, CloseFunction(r.cur, end)) ELSE r.funcs

DetectFunctionsInRange(d, start, end, overlay_num) ==
  CloseLast(DetectLoop(DecodeAll(Slice(d, start, end), start), 1, start,
                       overlay_num, <<>>, Function, FALSE),
            end)
(***************************************************************************)
(* analyze.py: Analyzer.detect_all_functions                               *)
(***************************************************************************)
HexDigits ==
  <<"0", "1", "2", "3", "4", "5", "6", "7", "8", "9", "A", "B", "C", "D", "E", "F">>

\* format(n, 'X') for n >= 0
RECURSIVE HexStr(_)
HexStr(n) ==
  IF n < 16 THEN HexDigits[n + 1] ELSE HexStr(n \div 16) \o HexDigits[(n % 16) + 1]

\* format(n, 'd') for n >= 0
RECURSIVE DecStr(_)
DecStr(n) ==
  IF n < 10 THEN HexDigits[n + 1] ELSE DecStr(n \div 10) \o HexDigits[(n % 10) + 1]

\* the 0<width> of a format specification: zeros on the left up to the width
RECURSIVE ZeroFill(_, _)
ZeroFill(str, width) == IF Len(str) >= width THEN str ELSE ZeroFill("0" \o str, width)

\* f'res_{f.start:06X}'
ResidentName(f) == "res_" \o ZeroFill(HexStr(f.start), 6)

\* f'ovl{ovl.index:02d}_{f.start:06X}'
OverlayName(index, f) ==
  "ovl" \o ZeroFill(DecStr(index), 2) \o "_" \o ZeroFill(HexStr(f.start), 6)

NamedResident(funcs) == [k \in 1..Len(funcs) |-> [funcs[k] EXCEPT !.name = ResidentName(funcs[k])]]

NamedOverlay(index, funcs) ==
  [k \in 1..Len(funcs) |-> [funcs[k] EXCEPT !.name = OverlayName(index, funcs[k])]]

OverlayFunctions(d, ovl) ==
  NamedOverlay(ovl.index,
               DetectFunctionsInRange(d, ovl.code_offset,
                                      ovl.code_offset + ovl.code_size, ovl.index))

\* the for loop over self.overlays: all is self.functions, ovls the overlays
\* with their functions lists assigned so far
RECURSIVE ExtendWith(_, _, _, _, _)
AllOverlayFunctions(d, ovls, k, all) ==
  IF k > Len(ovls) THEN [functions |-> all, overlays |-> ovls]
  ELSE ExtendWith(d, ovls, k, all, OverlayFunctions(d, ovls[k]))

ExtendWith(d, ovls, k, all, ovl_funcs) ==
  AllOverlayFunctions(
    d,
    [ovls EXCEPT ![k].functions = [j \in 1..Len(ovl_funcs) |-> Len(all) + j]],
    k + 1,
    all \o ovl_funcs)

\* the first function of the list whose range contains target, or 0 (the
\* inner for loop runs to its end without a match)
FunctionContainingOrFirst(funcs, target) ==
  IF \E k \in 1..Len(funcs) : funcs[k].start <= target /\ target < funcs[k].end
  THEN CHOOSE k \in 1..Len(funcs) :
         /\ funcs[k].start <= target /\ target < funcs[k].end
         /\ \A j \in 1..(k - 1) : ~(funcs[j].start <= target /\ target < funcs[j].end)
  ELSE 1

FunctionContaining(funcs, target) ==
  IF \E k \in 1..Len(funcs) : funcs[k].start <= target /\ target < funcs[k].end
  THEN CHOOSE k \in 1..Len(funcs) :
         /\ funcs[k].start <= target /\ target < funcs[k].end
         /\ \A j \in 1..(k - 1) : ~(funcs[j].start <= target /\ target < funcs[j].end)
  ELSE 0

InList(list, x) == \E k \in 1..Len(list) : list[k] = x

AddCallerToAlways(funcs, k, name) ==
  IF k = 0 THEN funcs ELSE [funcs EXCEPT ![k].called_by = Append(@, name)]

AddCallerTo(funcs, k, name) ==
  IF k = 0 \/ InList(funcs[k].called_by, name) THEN funcs
  ELSE [funcs EXCEPT ![k].called_by = Append(@, name)]

\* the call graph loops: function fi, entry ci of its calls
RECURSIVE BuildCallGraph(_, _, _)
BuildCallGraph(funcs, fi, ci) ==
  IF fi > Len(funcs) THEN funcs
  ELSE IF ci > Len(funcs[fi].calls) THEN BuildCallGraph(funcs, fi + 1, 1)
  ELSE IF funcs[fi].calls[ci].near
  THEN BuildCallGraph(
         AddCallerTo(funcs,
                     FunctionContaining(funcs, funcs[fi].calls[ci].target),
                     funcs[fi].name),
         fi, ci + 1)
  ELSE BuildCallGraph(funcs, fi, ci + 1)

DetectedAll(d, hdrSize, imgSize, ovls, all) ==
  AllOverlayFunctions(
    d, ovls, 1,
    all \o NamedResident(DetectFunctionsInRange(d, hdrSize, imgSize, 0)))

(***************************************************************************)
(* analyze.py: Analyzer.extract_strings                                    *)
(*                                                                         *)
(* self.strings is a dict from file offset to text; it is kept here as the *)
(* sequence of its items in insertion order, a text as the sequence of its *)
(* character codes (decode('ascii') of bytes 32..126 gives those codes).   *)
(***************************************************************************)
\* self.strings[key] = text
DictSet(dict, key, text) ==
  IF \E k \in 1..Len(dict) : dict[k].addr = key
  THEN [k \in 1..Len(dict) |->
          IF dict[k].addr = key THEN [addr |-> key, text |-> text] ELSE dict[k]]
  ELSE Append(dict, [addr |-> key, text |-> text])

IsPrintable(b) == 32 <= b /\ b < 127

\* the for loop over range(hdr_size, img_size); self.data[i] past the end of
\* the file raises IndexError
RECURSIVE ExtractLoop(_, _, _, _, _, _)
ExtractLoop(d, i, end, current, str_start, strs) ==
  IF i >= end THEN [kind |-> "ok", strings |-> strs]
  ELSE IF i >= Len(d) THEN [kind |-> "IndexError", strings |-> strs]
  ELSE IF IsPrintable(d[i + 1])
  THEN ExtractLoop(d, i + 1, end, Append(current, d[i + 1]),
                   IF current = <<>> THEN i ELSE str_start, strs)
  ELSE ExtractLoop(d, i + 1, end, <<>>, str_start,
                   IF Len(current) >= 4 THEN DictSet(strs, str_start, current)
                   ELSE strs)

ExtractedStrings(d, hdrSize, imgSize, strs) ==
  ExtractLoop(d, hdrSize, imgSize, <<>>, 0, strs)

(***************************************************************************)
(* analyze.py: Analyzer.categorize_functions                               *)
(***************************************************************************)
CATEGORIES ==
  <<
    [cat |-> "gfx", keywords |-> <<
       <<46, 112, 105, 99>>,   \* .pic
       <<46, 112, 97, 108>>,   \* .pal
       <<103, 114, 97, 112, 104, 105, 99>>,   \* graphic
       <<115, 112, 114, 105, 116, 101>>,   \* sprite
       <<105, 99, 111, 110>>,   \* icon
       <<86, 71, 65>>,   \* VGA
       <<69, 71, 65>>   \* EGA
     >>],
    [cat |-> "sound", keywords |-> <<
       <<46, 99, 118, 108>>,   \* .cvl
       <<115, 111, 117, 110, 100>>,   \* sound
       <<65, 100, 76, 105, 98>>,   \* AdLib
       <<66, 108, 97, 115, 116, 101, 114>>,   \* Blaster
       <<84, 97, 110, 100, 121>>   \* Tandy
     >>],
    [cat |-> "input", keywords |-> <<
       <<77, 111, 117, 115, 101>>,   \* Mouse
       <<75, 101, 121, 98, 111, 97, 114, 100>>,   \* Keyboard
       <<109, 111, 117, 115, 101>>,   \* mouse
       <<107, 101, 121, 98, 111, 97, 114, 100>>   \* keyboard
     >>],
    [cat |-> "game", keywords |-> <<
       <<99, 105, 116, 121>>,   \* city
       <<117, 110, 105, 116>>,   \* unit
       <<98, 117, 105, 108, 100>>,   \* build
       <<99, 111, 109, 98, 97, 116>>,   \* combat
       <<119, 111, 110, 100, 101, 114>>,   \* wonder
       <<97, 100, 118, 97, 110, 99, 101>>,   \* advance
       <<67, 105, 118, 105, 108, 105, 122, 97, 116, 105, 111, 110>>,   \* Civilization
       <<99, 105, 118, 105, 108, 105, 122, 97, 116, 105, 111, 110>>,   \* civilization
       <<71, 65, 77, 69, 32, 79, 86, 69, 82>>   \* GAME OVER
     >>],
    [cat |-> "map", keywords |-> <<
       <<77, 97, 112>>,   \* Map
       <<109, 97, 112>>,   \* map
       <<116, 101, 114, 114, 97, 105, 110>>,   \* terrain
       <<99, 111, 110, 116, 105, 110, 101, 110, 116>>,   \* continent
       <<111, 99, 101, 97, 110>>   \* ocean
     >>],
    [cat |-> "diplo", keywords |-> <<
       <<107, 105, 110, 103>>,   \* king
       <<80, 114, 101, 115, 105, 100, 101, 110, 116>>,   \* President
       <<87, 97, 114, 108, 111, 114, 100>>,   \* Warlord
       <<69, 109, 112, 101, 114, 111, 114>>,   \* Emperor
       <<116, 114, 101, 97, 116, 121>>,   \* treaty
       <<112, 101, 97, 99, 101>>,   \* peace
       <<119, 97, 114>>   \* war
     >>],
    [cat |-> "save", keywords |-> <<
       <<83, 97, 118, 101>>,   \* Save
       <<76, 111, 97, 100>>,   \* Load
       <<67, 73, 86, 73, 76, 48>>,   \* CIVIL0
       <<99, 105, 118, 105, 108, 48>>,   \* civil0
       <<102, 97, 109, 101>>   \* fame
     >>],
    [cat |-> "ui", keywords |-> <<
       <<109, 101, 110, 117>>,   \* menu
       <<77, 101, 110, 117>>,   \* Menu
       <<83, 116, 97, 116, 117, 115>>,   \* Status
       <<115, 99, 114, 101, 101, 110>>,   \* screen
       <<100, 105, 115, 112, 108, 97, 121>>   \* display
     >>],
    [cat |-> "init", keywords |-> <<
       <<83, 116, 97, 114, 116>>,   \* Start
       <<78, 101, 119, 32, 71, 97, 109, 101>>,   \* New Game
       <<108, 111, 103, 111>>,   \* logo
       <<99, 114, 101, 100, 105, 116, 115>>,   \* credits
       <<105, 110, 116, 114, 111>>   \* intro
     >>]
  >>

\* kw in string
IsSubstring(kw, string) ==
  \E p \in 0..(Len(string) - Len(kw)) : SubSeq(string, p + 1, p + Len(kw)) = kw

AnyKeywordIn(keywords, string) ==
  \E k \in 1..Len(keywords) : IsSubstring(keywords[k], string)

\* the loop over categories.items(): the first category with a keyword in the
\* string is assigned and the loop is left; func.category stays when none has
RECURSIVE CategoryLoop(_, _, _)
CategoryLoop(category, string, c) ==
  IF c > Len(CATEGORIES) THEN category
  ELSE IF AnyKeywordIn(CATEGORIES[c].keywords, string) THEN CATEGORIES[c].cat
  ELSE CategoryLoop(category, string, c + 1)

\* the loop over self.strings.items() for one function
RECURSIVE StringsLoop(_, _, _)
StringsLoop(func, strs, k) ==
  IF k > Len(strs) THEN func
  ELSE IF func.start <= strs[k].addr /\ strs[k].addr < func.end
  THEN StringsLoop([func EXCEPT !.category = CategoryLoop(@, strs[k].text, 1)],
                   strs, k + 1)
  ELSE StringsLoop(func, strs, k + 1)

Categorized(funcs, strs) == [i \in 1..Len(funcs) |-> StringsLoop(funcs[i], strs, 1)]

(***************************************************************************)
(* The analyzer as a state machine: an Analyzer constructed over a file,   *)
(* on which find_overlays, detect_all_functions, extract_strings and       *)
(* categorize_functions are called, each once, in the order of main().     *)
(***************************************************************************)
Lo(v) == v % 256

Hi(v) == (v \div 256) % 256

Zeros(n) == [k \in 1..n |-> 0]

\* a 32-byte MZ header: the magic, the bytes in the last page at 2, the page
\* count at 4 and the header's size in paragraphs at 8
MZHeader(last_page, pages) ==
  <<\H4D, \H5A, Lo(last_page), Hi(last_page), Lo(pages), Hi(pages), 0, 0, 2, 0>>
    \o Zeros(22)

\* instructions the code regions of the input files are made of
Prologue == <<\H55, \H8B, \HEC>>

Ret == <<\HC3>>

RetFar == <<\HCB>>

CallNext == <<\HE8, \H00, \H00>>

CallBack6 == <<\HE8, \HFA, \HFF>>

CallAhead506 == <<\HE8, \HFA, \H01>>

CallFarPtr == <<\H9A, \H34, \H12, \H78, \H56>>

OverlayTrap == <<\HCD, \H3F, \H01, \H00, \H00>>

\* push bp; mov bp,sp in the 89 E5 encoding
PrologueAlt == <<\H55, \H89, \HE5>>

\* sub sp,0x10
FrameAlloc == <<\H83, \HEC, \H10>>

\* a lone push bp
PushBP == <<\H55>>

ResidentChunks ==
  {Prologue, PrologueAlt, PushBP, FrameAlloc, Ret, RetFar, CallNext, CallBack6,
   CallAhead506, CallFarPtr, OverlayTrap}

OverlayChunks == {Prologue, Ret, CallNext, CallBack6}

RECURSIVE Flatten(_)
Flatten(chunks) == IF chunks = <<>> THEN <<>> ELSE chunks[1] \o Flatten(Tail(chunks))

CodeOver(chunks, maxChunks) ==
  {Flatten(c) : c \in UNION {[1..n -> chunks] : n \in 0..maxChunks}}

\* a file with resident code after a 32-byte header, padded to 512 bytes
ResidentImage(code) == MZHeader(32 + Len(code), 1) \o code \o Zeros(480 - Len(code))

\* an overlay module: a 32-byte header and code
OverlayModule(code) == MZHeader(32 + Len(code), 1) \o code

\* call to buffer position 6 + 0x3FA of the resident window: file offset 1056
CallAhead1018 == <<\HE8, \HFA, \H03>>

\* an overlay module of one page whose header declares 34 paragraphs and two
\* pages: its code window begins 544 bytes after its first byte
WideHeaderModule == <<\H4D, \H5A, 0, 0, 2, 0, 0, 0, 34, 0>> \o Zeros(502)

\* files in which the code window of one module lies over the next module
NestedModuleFiles ==
  {ResidentImage(res) \o WideHeaderModule \o OverlayModule(ovl) :
     res \in CodeOver({Prologue, CallAhead1018}, MaxResChunks),
     ovl \in CodeOver({Prologue, Ret}, MaxOvlChunks)}

\* texts in the resident code: "war!", "map!" and "ab"
TxtWar == <<119, 97, 114, 33>>

TxtMap == <<109, 97, 112, 33>>

TxtAb == <<97, 98>>

StringChunks == {Prologue, Ret, TxtWar, TxtMap, TxtAb}

StringFiles == {ResidentImage(res) : res \in CodeOver(StringChunks, MaxStrChunks)}

InputFiles ==
  {ResidentImage(res) : res \in CodeOver(ResidentChunks, MaxResChunks)}
    \cup {ResidentImage(res) \o OverlayModule(ovl) :
            res \in CodeOver(ResidentChunks, MaxResChunks),
            ovl \in CodeOver(OverlayChunks, MaxOvlChunks)}
    \cup NestedModuleFiles
    \cup StringFiles

InitAnalyzer ==
  /\ fileData \in InputFiles
  /\ hdr_size = HdrSize(fileData)
  /\ img_size = ImgSize(fileData)
  /\ overlays = <<>>
  /\ functions = <<>>
  /\ strings = <<>>
  /\ apc = "constructed"
  /\ data = <<>>
  /\ base = 0
  /\ pos = 0
  /\ rangeStart = 0
  /\ rangeEnd = 0
  /\ instructions = <<>>
  /\ pc = "idle"
  /\ NoLifter
  /\ NoResolver

FindOverlays ==
  /\ apc = "constructed"
  /\ overlays' = overlays \o FoundOverlays(fileData, img_size)
  /\ apc' = "overlays_found"
  /\ UNCHANGED <<fileData, hdr_size, img_size, functions, strings, dvars, lvars, rvars>>

DetectAllFunctions ==
  /\ apc \in {"constructed", "overlays_found"}
  /\ \E r \in {DetectedAll(fileData, hdr_size, img_size, overlays, functions)} :
       /\ functions' = BuildCallGraph(r.functions, 1, 1)
       /\ overlays' = r.overlays
  /\ apc' = "analyzed"
  /\ UNCHANGED <<fileData, hdr_size, img_size, strings, dvars, lvars, rvars>>

ExtractStrings ==
  /\ apc = "analyzed"
  /\ \E r \in {ExtractedStrings(fileData, hdr_size, img_size, strings)} :
       /\ strings' = r.strings
       /\ apc' = IF r.kind = "ok" THEN "strings_extracted" ELSE r.kind
  /\ UNCHANGED <<fileData, hdr_size, img_size, overlays, functions, dvars, lvars, rvars>>

CategorizeFunctions ==
  /\ apc = "strings_extracted"
  /\ functions' = Categorized(functions, strings)
  /\ apc' = "categorized"
  /\ UNCHANGED <<fileData, hdr_size, img_size, overlays, strings, dvars, lvars, rvars>>

NextAnalyzer ==
  FindOverlays \/ DetectAllFunctions \/ ExtractStrings \/ CategorizeFunctions

SpecAnalyzer == InitAnalyzer /\ [][NextAnalyzer]_vars

(***************************************************************************)
(* Vocabulary of the claims about the analyzer                             *)
(***************************************************************************)
Funcs == {functions[k] : k \in 1..Len(functions)}

\* the overlay a function of an overlay belongs to
OverlayOf(f) == overlays[CHOOSE k \in 1..Len(overlays) : overlays[k].index = f.overlay_num]

\* the code window of the region a function belongs to: the resident window
\* for overlay_num = 0, else the code window of its overlay
RegionStart(f) == IF f.overlay_num = 0 THEN hdr_size ELSE OverlayOf(f).code_offset

RegionEnd(f) ==
  IF f.overlay_num = 0 THEN img_size
  ELSE OverlayOf(f).code_offset + OverlayOf(f).code_size

(***************************************************************************)
(* C10: after analysis, every near-call target in a function's calls list  *)
(* lies in [start, end) of the region the function belongs to, and no      *)
(* function's called_by names a caller of another region.                  *)
(***************************************************************************)
C10_NearCallsStayInRegion ==
  apc = "analyzed" =>
    /\ \A f \in Funcs : \A k \in 1..Len(f.calls) :
         f.calls[k].near =>
           RegionStart(f) <= f.calls[k].target /\ f.calls[k].target < RegionEnd(f)
    /\ \A callee \in Funcs : \A caller \in Funcs :
         InList(callee.called_by, caller.name) =>
           caller.overlay_num = callee.overlay_num
(***************************************************************************)
(* The functions of one region, in list order: region 0 is the resident    *)
(* window, region k > 0 the code window of the overlay with index k.       *)
(***************************************************************************)
Regions == {0} \cup {overlays[k].index : k \in 1..Len(overlays)}

InRegion(f, r) == f.overlay_num = r

RegionFunctions(r) ==
  LET Keep(f) == InRegion(f, r) IN SelectSeq(functions, Keep)

RegionStartOf(r) ==
  IF r = 0 THEN hdr_size
  ELSE overlays[CHOOSE k \in 1..Len(overlays) : overlays[k].index = r].code_offset

RegionEndOf(r) ==
  IF r = 0 THEN img_size
  ELSE overlays[CHOOSE k \in 1..Len(overlays) : overlays[k].index = r].code_offset
         + overlays[CHOOSE k \in 1..Len(overlays) : overlays[k].index = r].code_size

\* the chain a region's function list forms up to the region's end
IsChain(fs, regionStart, regionEnd) ==
  \A k \in 1..Len(fs) :
    /\ regionStart <= fs[k].start
    /\ fs[k].size = fs[k].end - fs[k].start
    /\ fs[k].size > 0
    /\ fs[k].end = IF k < Len(fs) THEN fs[k + 1].start ELSE regionEnd

RegionInsts(r) ==
  DecodeAll(Slice(fileData, RegionStartOf(r), RegionEndOf(r)), RegionStartOf(r))

IsPushBP(inst) == inst.mnemonic = "push" /\ inst.op1 = Reg16(5)

\* MOV BP, SP in either encoding
IsMovBpSp(inst) ==
  /\ inst.mnemonic = "mov"
  /\ Len(inst.raw) >= 2
  /\ SubSeq(inst.raw, Len(inst.raw) - 1, Len(inst.raw))
       \in {<<\H8B, \HEC>>, <<\H89, \HE5>>}

IsSubSpImm(inst) ==
  /\ inst.mnemonic = "sub"
  /\ inst.op1 = Reg16(4)
  /\ inst.op2.type \in {"IMM8", "IMM16"}

ProloguePositions(insts) ==
  LET AtPrologue(i) == /\ IsPushBP(insts[i])
                       /\ i < Len(insts)
                       /\ IsMovBpSp(insts[i + 1])
  IN SelectSeq([i \in 1..Len(insts) |-> i], AtPrologue)

StartsAtPrologues(fs, insts, ps) ==
  /\ Len(fs) = Len(ps)
  /\ \A k \in 1..Len(fs) :
       /\ fs[k].start = insts[ps[k]].offset
       /\ fs[k].local_size =
            IF ps[k] + 2 <= Len(insts) /\ IsSubSpImm(insts[ps[k] + 2])
            THEN insts[ps[k] + 2].op2.disp
            ELSE 0

(***************************************************************************)
(* C12: the functions of a region correspond, in order, to the positions   *)
(* i of its instruction sequence where instruction i is PUSH BP and        *)
(* instruction i+1 is MOV BP,SP (8B EC or 89 E5); a function starts at     *)
(* the offset of its PUSH BP, and its local_size is the immediate of       *)
(* instruction i+2 when that is SUB SP,imm and 0 otherwise.                *)
(***************************************************************************)
C12_FunctionsArePrologues ==
  apc = "analyzed" =>
    \A r \in Regions :
      StartsAtPrologues(RegionFunctions(r), RegionInsts(r),
                        ProloguePositions(RegionInsts(r)))

\* 55 8B EC 83 EC 10 55 89 E5: two functions, local sizes 0x10 and 0
C12_Witness ==
  /\ apc = "analyzed"
  /\ Slice(fileData, hdr_size, img_size) = Prologue \o FrameAlloc \o PrologueAlt
  /\ Len(RegionFunctions(0)) = 2
  /\ RegionFunctions(0)[1].local_size = \H10
  /\ RegionFunctions(0)[2].local_size = 0
  /\ RegionFunctions(0)[2].start = hdr_size + 6
(***************************************************************************)
(* Vocabulary of the call graph claims                                     *)
(***************************************************************************)
FuncIdx == 1..Len(functions)

NearTargets(f) == {f.calls[k].target : k \in {j \in 1..Len(f.calls) : f.calls[j].near}}

Contains(f, t) == f.start <= t /\ t < f.end

Count(list, x) == Cardinality({k \in 1..Len(list) : list[k] = x})

NoDuplicateCallers ==
  \A i \in FuncIdx :
    \A k \in 1..Len(functions[i].called_by) :
      Count(functions[i].called_by, functions[i].called_by[k]) = 1

\* the function the call graph loop stops at: the first one, in list order,
\* whose range contains t
IsFirstContaining(i, t) ==
  /\ Contains(functions[i], t)
  /\ \A j \in 1..(i - 1) : ~Contains(functions[j], t)

InstsOf(f) ==
  LET Inside(inst) == f.start <= inst.offset /\ inst.offset < f.end
  IN SelectSeq(RegionInsts(f.overlay_num), Inside)

IsRecordedCall(inst) == inst.mnemonic = "call" /\ inst.op1.type \in {"REL16", "FAR"}

CallEntry(f, inst) ==
  IF inst.op1.type = "REL16"
  THEN NearCall(RegionStartOf(f.overlay_num) + inst.op1.disp)
  ELSE FarCall(inst.op1.far_seg, inst.op1.disp)

CallsOf(f) ==
  LET cs == SelectSeq(InstsOf(f), IsRecordedCall)
  IN [k \in 1..Len(cs) |-> CallEntry(f, cs[k])]

(***************************************************************************)
(* C14: a near-call target that lies in no function's range adds no        *)
(* called_by entry and raises no error, and the target stays in the        *)
(* caller's calls; far-call pairs and overlay-call pairs never produce     *)
(* called_by entries: every called_by entry comes from a near call into    *)
(* the function, and the calls lists are what the sweep recorded.          *)
(***************************************************************************)
C14_CalledByOnlyFromContainedNearCalls ==
  apc = "analyzed" =>
    \A i \in FuncIdx :
      /\ functions[i].calls = CallsOf(functions[i])
      /\ \A k \in 1..Len(functions[i].called_by) :
           \E s \in FuncIdx :
             /\ functions[s].name = functions[i].called_by[k]
             /\ \E t \in NearTargets(functions[s]) : IsFirstContaining(i, t)

\* a function with a near call into no function and a far call, after an
\* analysis that recorded no caller anywhere
C14_Witness ==
  /\ apc = "analyzed"
  /\ \E s \in FuncIdx :
       /\ \E t \in NearTargets(functions[s]) : \A i \in FuncIdx : ~Contains(functions[i], t)
       /\ \E k \in 1..Len(functions[s].calls) : ~functions[s].calls[k].near
  /\ \A i \in FuncIdx : functions[i].called_by = <<>>
(***************************************************************************)
(* Vocabulary of the instruction accounting                                *)
(***************************************************************************)
IsTrap(inst) == inst.mnemonic = "int" /\ inst.overlay_num >= 0

TrapsOf(f) ==
  LET ts == SelectSeq(InstsOf(f), IsTrap)
  IN [k \in 1..Len(ts) |-> <<ts[k].overlay_num, ts[k].overlay_off>>]

HasFarReturn(f) == \E k \in 1..Len(InstsOf(f)) : InstsOf(f)[k].mnemonic = "retf"

RECURSIVE SumInstCount(_)
SumInstCount(fs) == IF fs = <<>> THEN 0 ELSE fs[1].inst_count + SumInstCount(Tail(fs))

\* the instructions of a region from its first prologue on
FromFirstPrologue(insts, ps) ==
  IF ps = <<>> THEN <<>> ELSE SubSeq(insts, ps[1], Len(insts))

Recorded == {strings[k] : k \in 1..Len(strings)}

\* [a, b) is a maximal run of printable bytes inside the resident window
IsMaximalRun(a, b) ==
  /\ hdr_size <= a /\ a < b /\ b <= img_size
  /\ \A i \in a..(b - 1) : IsPrintable(fileData[i + 1])
  /\ a = hdr_size \/ ~IsPrintable(fileData[a])
  /\ b = img_size \/ ~IsPrintable(fileData[b + 1])

MaximalRuns ==
  {[addr |-> p[1], text |-> Slice(fileData, p[1], p[2])] :
     p \in {q \in (hdr_size..img_size) \X (hdr_size..img_size) :
              IsMaximalRun(q[1], q[2])}}

(***************************************************************************)
(* C16: after extract_strings the recorded strings are exactly the maximal *)
(* runs of bytes 0x20..0x7E of length >= 4 inside [header_size,            *)
(* image_size), each keyed by the file offset of its first byte: no run of *)
(* 3 or fewer is recorded and every run of 4 or more is, a run that        *)
(* reaches the last byte of the window included.                           *)
(***************************************************************************)
C16_StringsAreLongMaximalRuns ==
  apc \in {"strings_extracted", "categorized"} =>
    /\ Recorded = {r \in MaximalRuns : Len(r.text) >= 4}
    /\ Len(strings) = Cardinality(Recorded)

(***************************************************************************)
(* Vocabulary of the category claim                                        *)
(***************************************************************************)
HasKeyword(string) ==
  \E c \in 1..Len(CATEGORIES) : AnyKeywordIn(CATEGORIES[c].keywords, string)

\* the first category, in table order, with a keyword in the string
FirstCategory(string) ==
  CATEGORIES[CHOOSE c \in 1..Len(CATEGORIES) :
               /\ AnyKeywordIn(CATEGORIES[c].keywords, string)
               /\ \A e \in 1..(c - 1) : ~AnyKeywordIn(CATEGORIES[e].keywords, string)].cat

MatchingIn(f) ==
  {r \in Recorded : f.start <= r.addr /\ r.addr < f.end /\ HasKeyword(r.text)}

LowestMatching(f) ==
  CHOOSE r \in MatchingIn(f) : \A q \in MatchingIn(f) : r.addr <= q.addr

(***************************************************************************)
(* C17: the category of a function after categorize_functions is that of   *)
(* the first (lowest-offset) recorded string inside [start, end) that      *)
(* contains a keyword, the category being the first in table order with a  *)
(* keyword in that string; a function with no such string keeps the empty  *)
(* tag.                                                                    *)
(***************************************************************************)
C17_CategoryOfFirstMatchingString ==
  apc = "categorized" =>
    \A i \in FuncIdx :
      functions[i].category =
        IF MatchingIn(functions[i]) = {} THEN ""
        ELSE FirstCategory(LowestMatching(functions[i]).text)
(***************************************************************************)
(* lift.py: the C expressions of operands                                  *)
(***************************************************************************)
REG8_NAMES == <<"al", "cl", "dl", "bl", "ah", "ch", "dh", "bh">>

SREG_NAMES == <<"es", "cs", "ss", "ds">>

\* f'0x{v & 0xFFFF:X}'
Hex16(v) == "0x" \o HexStr(Mask16(v))

\* sep.join(parts)
RECURSIVE Join(_, _)
Join(parts, sep) ==
  IF parts = <<>> THEN ""
  ELSE IF Len(parts) = 1 THEN parts[1]
  ELSE parts[1] \o sep \o Join(Tail(parts), sep)

reg8(op) == "cpu->" \o REG8_NAMES[op.reg + 1]

reg16(op) == "cpu->" \o REG16_NAMES[op.reg + 1]

sreg(op) == "cpu->" \o SREG_NAMES[op.reg + 1]

\* the parts list of _mem_addr
AddrParts(op) ==
  (IF op.base # "" THEN <<"cpu->" \o op.base>> ELSE <<>>)
    \o (IF op.index # "" THEN <<"cpu->" \o op.index>> ELSE <<>>)

DispStr(op) ==
  IF op.disp < 0 THEN "- " \o Hex16(-op.disp) ELSE "+ " \o Hex16(op.disp)

mem_addr(op) ==
  [seg |-> IF op.seg # "" THEN "cpu->" \o op.seg ELSE "cpu->ds",
   off |->
     IF op.disp # 0
     THEN IF AddrParts(op) # <<>>
          THEN "(uint16_t)(" \o Join(AddrParts(op), " + ") \o " " \o DispStr(op) \o ")"
          ELSE Hex16(op.disp)
     ELSE IF AddrParts(op) # <<>>
     THEN IF Len(AddrParts(op)) = 1 THEN AddrParts(op)[1]
          ELSE "(uint16_t)(" \o Join(AddrParts(op), " + ") \o ")"
     ELSE "0"]

read(op) ==
  IF op.type = "REG8" THEN reg8(op)
  ELSE IF op.type = "REG16" THEN reg16(op)
  ELSE IF op.type = "SREG" THEN sreg(op)
  ELSE IF op.type \in {"IMM8", "IMM16"} THEN Hex16(op.disp)
  ELSE IF op.type \in {"MEM", "MOFFS"}
  THEN (IF op.size = 1 THEN "mem_read8(cpu, " ELSE "mem_read16(cpu, ")
         \o mem_addr(op).seg \o ", " \o mem_addr(op).off \o ")"
  ELSE "/* ??? */"

write(op, val) ==
  IF op.type = "REG8" THEN reg8(op) \o " = (uint8_t)(" \o val \o ");"
  ELSE IF op.type = "REG16" THEN reg16(op) \o " = (uint16_t)(" \o val \o ");"
  ELSE IF op.type = "SREG" THEN sreg(op) \o " = (uint16_t)(" \o val \o ");"
  ELSE IF op.type \in {"MEM", "MOFFS"}
  THEN IF op.size = 1
       THEN "mem_write8(cpu, " \o mem_addr(op).seg \o ", " \o mem_addr(op).off
              \o ", (uint8_t)(" \o val \o "));"
       ELSE "mem_write16(cpu, " \o mem_addr(op).seg \o ", " \o mem_addr(op).off
              \o ", (uint16_t)(" \o val \o "));"
  ELSE "/* write ??? = " \o val \o " */;"

\* f'L_{addr:04X}'
label(addr) == "L_" \o ZeroFill(HexStr(addr), 4)

(***************************************************************************)
(* decode16.py: Operand.__repr__ and Instruction.__repr__, the text of the *)
(* original instruction in the comments                                    *)
(***************************************************************************)
SizeWord(op) == IF op.size = 1 THEN "byte " ELSE IF op.size = 2 THEN "word " ELSE ""

ReprParts(op) ==
  (IF op.base # "" THEN <<op.base>> ELSE <<>>)
    \o (IF op.index # "" THEN <<op.index>> ELSE <<>>)

ReprDisp(op) ==
  IF op.disp # 0 \/ ReprParts(op) = <<>>
  THEN IF op.disp < 0 /\ ReprParts(op) # <<>>
       THEN <<"-" \o Hex16(-op.disp)>>
       ELSE <<Hex16(op.disp)>>
  ELSE <<>>

OperandRepr(op) ==
  IF op.type = "REG8" THEN REG8_NAMES[op.reg + 1]
  ELSE IF op.type = "REG16" THEN REG16_NAMES[op.reg + 1]
  ELSE IF op.type = "SREG" THEN SREG_NAMES[op.reg + 1]
  ELSE IF op.type \in {"IMM8", "IMM16"} THEN Hex16(op.disp)
  ELSE IF op.type \in {"REL8", "REL16"} THEN "0x" \o ZeroFill(HexStr(Mask16(op.disp)), 4)
  ELSE IF op.type = "FAR"
  THEN ZeroFill(HexStr(op.far_seg), 4) \o ":" \o ZeroFill(HexStr(op.disp), 4)
  ELSE IF op.type = "MEM"
  THEN SizeWord(op) \o (IF op.seg # "" THEN op.seg \o ":" ELSE "")
         \o "[" \o Join(ReprParts(op) \o ReprDisp(op), "+") \o "]"
  ELSE IF op.type = "MOFFS"
  THEN SizeWord(op) \o (IF op.seg # "" THEN op.seg \o ":" ELSE "ds:")
         \o "[" \o Hex16(op.disp) \o "]"
  ELSE "?"

\* repr(op) of an operand that may be None
ReprOrNone(op) == IF op = NoOperand THEN "None" ELSE OperandRepr(op)

InstructionRepr(inst) ==
  Join((IF inst.prefix # "" THEN <<inst.prefix>> ELSE <<>>)
         \o <<inst.mnemonic>>
         \o (IF inst.op1 # NoOperand
             THEN <<OperandRepr(inst.op1)
                      \o (IF inst.op2 # NoOperand THEN ", " \o OperandRepr(inst.op2)
                          ELSE "")>>
             ELSE <<>>),
       " ")

(***************************************************************************)
(* lift.py: Lifter._emit and Lifter._emit_label.  A line of the output is  *)
(* kept as the indent level, the code and the comment it is made of;       *)
(* LineText is the line as _emit builds it.                                *)
(***************************************************************************)
Line(ind, code, comment) == [indent |-> ind, code |-> code, comment |-> comment]

\* self.output.append(text)
RawLine(text) == Line(0, text, "")

RECURSIVE Spaces(_)
Spaces(n) == IF n <= 0 THEN "" ELSE " " \o Spaces(n - 1)

LineText(l) ==
  IF l.comment # ""
  THEN Spaces(4 * l.indent) \o l.code
         \o Spaces(44 - Len(Spaces(4 * l.indent) \o l.code))
         \o " /* " \o l.comment \o " */"
  ELSE Spaces(4 * l.indent) \o l.code

\* the lines _emit_label adds
LabelLines(labels, addr) ==
  IF addr \in labels THEN <<RawLine(label(addr) \o ":;")>> ELSE <<>>

(***************************************************************************)
(* lift.py: Lifter.lift_instruction.  The ladder gives the (code, comment) *)
(* pairs handed to _emit, in order.                                        *)
(***************************************************************************)
Emit(code, comment) == <<[code |-> code, comment |-> comment]>>

Is8(op) == op.size = 1 \/ op.type = "REG8"

Sz(op) == IF Is8(op) THEN "8" ELSE "16"

\* add, adc, sub, sbb
ArithCode(m, op1, op2) ==
  write(op1,
        (IF m \in {"add", "adc"} THEN "flags_add" ELSE "flags_sub") \o Sz(op1)
          \o "(cpu, " \o read(op1) \o ", " \o read(op2)
          \o (IF m \in {"adc", "sbb"} THEN " + cf(cpu))" ELSE ")"))

\* inc, dec
IncDecCode(m, op1) ==
  "{ int _cf = cf(cpu); "
    \o write(op1, (IF m = "inc" THEN "flags_add" ELSE "flags_sub") \o Sz(op1)
                    \o "(cpu, " \o read(op1) \o ", 1)")
    \o " if (_cf) cpu->flags |= FLAG_CF; else cpu->flags &= ~FLAG_CF; }"

MulCode(op1) ==
  IF Is8(op1)
  THEN "{ uint16_t _r = (uint16_t)cpu->al * " \o read(op1) \o "; cpu->ax = _r; "
         \o "cpu->flags = (cpu->flags & ~(FLAG_CF|FLAG_OF)) | "
         \o "(_r > 0xFF ? FLAG_CF|FLAG_OF : 0); }"
  ELSE "{ uint32_t _r = (uint32_t)cpu->ax * " \o read(op1) \o "; "
         \o "cpu->ax = (uint16_t)_r; cpu->dx = (uint16_t)(_r >> 16); "
         \o "cpu->flags = (cpu->flags & ~(FLAG_CF|FLAG_OF)) | "
         \o "(cpu->dx ? FLAG_CF|FLAG_OF : 0); }"

ImulCode(op1) ==
  IF Is8(op1)
  THEN "{ int16_t _r = (int16_t)(int8_t)cpu->al * (int8_t)" \o read(op1) \o "; "
         \o "cpu->ax = (uint16_t)_r; "
         \o "cpu->flags = (cpu->flags & ~(FLAG_CF|FLAG_OF)) | "
         \o "((uint16_t)_r != (uint16_t)(int16_t)(int8_t)_r ? "
         \o "FLAG_CF|FLAG_OF : 0); }"
  ELSE "{ int32_t _r = (int32_t)(int16_t)cpu->ax * (int16_t)" \o read(op1) \o "; "
         \o "cpu->ax = (uint16_t)_r; "
         \o "cpu->dx = (uint16_t)((uint32_t)_r >> 16); "
         \o "cpu->flags = (cpu->flags & ~(FLAG_CF|FLAG_OF)) | "
         \o "((uint32_t)_r != (uint32_t)(int32_t)(int16_t)_r ? "
         \o "FLAG_CF|FLAG_OF : 0); }"

DivCode(op1) ==
  IF Is8(op1)
  THEN "{ uint16_t _n = cpu->ax; uint8_t _d = " \o read(op1) \o "; "
         \o "cpu->al = (uint8_t)(_n / _d); "
         \o "cpu->ah = (uint8_t)(_n % _d); }"
  ELSE "{ uint32_t _n = ((uint32_t)cpu->dx << 16) | cpu->ax; "
         \o "uint16_t _d = " \o read(op1) \o "; "
         \o "cpu->ax = (uint16_t)(_n / _d); "
         \o "cpu->dx = (uint16_t)(_n % _d); }"

IdivCode(op1) ==
  IF Is8(op1)
  THEN "{ int16_t _n = (int16_t)cpu->ax; "
         \o "int8_t _d = (int8_t)" \o read(op1) \o "; "
         \o "cpu->al = (uint8_t)(int8_t)(_n / _d); "
         \o "cpu->ah = (uint8_t)(int8_t)(_n % _d); }"
  ELSE "{ int32_t _n = (int32_t)(((uint32_t)cpu->dx << 16) "
         \o "| cpu->ax); int16_t _d = (int16_t)" \o read(op1) \o "; "
         \o "cpu->ax = (uint16_t)(int16_t)(_n / _d); "
         \o "cpu->dx = (uint16_t)(int16_t)(_n % _d); }"

\* and, or, xor
LogicCode(m, op1, op2) ==
  "{ uint" \o Sz(op1) \o "_t _r = " \o read(op1)
    \o (IF m = "and" THEN " & " ELSE IF m = "or" THEN " | " ELSE " ^ ")
    \o read(op2) \o "; flags_logic" \o Sz(op1) \o "(cpu, _r); "
    \o write(op1, "_r") \o " }"

ShlCode(op1, op2) ==
  "{ uint" \o Sz(op1) \o "_t _v = " \o read(op1) \o "; uint8_t _c = " \o read(op2) \o "; "
    \o "uint" \o Sz(op1) \o "_t _r = _v << _c; "
    \o "cpu->flags = (cpu->flags & ~FLAG_CF) | "
    \o "((_v >> (" \o Sz(op1) \o " - _c)) & 1 ? FLAG_CF : 0); "
    \o "flags_shift" \o Sz(op1) \o "(cpu, _r); "
    \o write(op1, "_r") \o " }"

ShrCode(op1, op2) ==
  "{ uint" \o Sz(op1) \o "_t _v = " \o read(op1) \o "; uint8_t _c = " \o read(op2) \o "; "
    \o "uint" \o Sz(op1) \o "_t _r = _v >> _c; "
    \o "cpu->flags = (cpu->flags & ~FLAG_CF) | "
    \o "((_v >> (_c - 1)) & 1 ? FLAG_CF : 0); "
    \o "flags_shift" \o Sz(op1) \o "(cpu, _r); "
    \o write(op1, "_r") \o " }"

SarCode(op1, op2) ==
  "{ int" \o Sz(op1) \o "_t _v = (int" \o Sz(op1) \o "_t)" \o read(op1)
    \o "; uint8_t _c = " \o read(op2) \o "; "
    \o "int" \o Sz(op1) \o "_t _r = _v >> _c; "
    \o "cpu->flags = (cpu->flags & ~FLAG_CF) | "
    \o "((_v >> (_c - 1)) & 1 ? FLAG_CF : 0); "
    \o "flags_shift" \o Sz(op1) \o "(cpu, (uint" \o Sz(op1) \o "_t)_r); "
    \o write(op1, "(uint" \o Sz(op1) \o "_t)_r") \o " }"

IsRelative(op) == op.type \in {"REL8", "REL16"}

JmpCode(op1) ==
  IF IsRelative(op1) THEN "goto " \o label(op1.disp) \o ";"
  ELSE IF op1.type = "MEM"
  THEN "/* indirect jmp via " \o read(op1) \o " - needs dispatch */"
  ELSE "/* jmp " \o ReprOrNone(op1) \o " */"

CC_CODES == <<"cc_o", "cc_no", "cc_b", "cc_ae", "cc_e", "cc_ne", "cc_be", "cc_a",
              "cc_s", "cc_ns", "cc_p", "cc_np", "cc_l", "cc_ge", "cc_le", "cc_g">>

\* CC_MAP[m]
CC_MAP(m) == CC_CODES[CHOOSE k \in 1..16 : CC_NAMES[k] = m]

\* f'res_{target:06X}' and f'far_{seg:04X}_{off:04X}'
\* the name taken from the decoded target alone
CallNameOfTarget(op1, fstart) ==
  IF op1.type = "REL16" THEN "res_" \o ZeroFill(HexStr(op1.disp), 6)
  ELSE "far_" \o ZeroFill(HexStr(op1.far_seg), 4) \o "_" \o ZeroFill(HexStr(op1.disp), 4)

CallName(op1, fstart) ==
  IF op1.type = "REL16" THEN "res_" \o ZeroFill(HexStr(fstart + op1.disp), 6)
  ELSE "far_" \o ZeroFill(HexStr(op1.far_seg), 4) \o "_" \o ZeroFill(HexStr(op1.disp), 4)

CallCode(op1, fstart) ==
  IF op1.type \in {"REL16", "FAR"} THEN CallName(op1, fstart) \o "(cpu);"
  ELSE "/* indirect call " \o ReprOrNone(op1) \o " - needs dispatch */"

RetCode(op1) ==
  IF op1 # NoOperand THEN "cpu->sp += " \o read(op1) \o "; return;" ELSE "return;"

IsOverlayCall(inst) == inst.op1.disp = \H3F /\ inst.overlay_num >= 0

\* the module index printed in hex, as the comment of the line prints it
OvlNameHexModule(inst) ==
  "ovl" \o ZeroFill(HexStr(inst.overlay_num), 2) \o "_"
    \o ZeroFill(HexStr(inst.overlay_off), 4)

\* f'ovl{inst.overlay_num:02d}_{inst.overlay_off:04X}'
OvlName(inst) ==
  "ovl" \o ZeroFill(DecStr(inst.overlay_num), 2) \o "_"
    \o ZeroFill(HexStr(inst.overlay_off), 4)

IntLines(inst, orig) ==
  IF IsOverlayCall(inst)
  THEN Emit(OvlName(inst) \o "(cpu);",
            "INT 3Fh -> OVL " \o ZeroFill(HexStr(inst.overlay_num), 2) \o ":"
              \o ZeroFill(HexStr(inst.overlay_off), 4))
  ELSE IF inst.op1.disp = \H21 THEN Emit("dos_int21(cpu);", orig)
  ELSE IF inst.op1.disp = \H10 THEN Emit("bios_int10(cpu);", orig)
  ELSE IF inst.op1.disp = \H16 THEN Emit("bios_int16(cpu);", orig)
  ELSE IF inst.op1.disp = \H33 THEN Emit("mouse_int33(cpu);", orig)
  ELSE Emit("int_handler(cpu, 0x" \o ZeroFill(HexStr(inst.op1.disp), 2) \o ");", orig)

\* the bodies of the string primitives
StringOpCode(m) ==
  CASE m = "movsb" ->
         "mem_write8(cpu, cpu->es, cpu->di, mem_read8(cpu, cpu->ds, cpu->si)); "
           \o "cpu->si += df(cpu) ? -1 : 1; cpu->di += df(cpu) ? -1 : 1;"
    [] m = "movsw" ->
         "mem_write16(cpu, cpu->es, cpu->di, mem_read16(cpu, cpu->ds, cpu->si)); "
           \o "cpu->si += df(cpu) ? -2 : 2; cpu->di += df(cpu) ? -2 : 2;"
    [] m = "stosb" ->
         "mem_write8(cpu, cpu->es, cpu->di, cpu->al); cpu->di += df(cpu) ? -1 : 1;"
    [] m = "stosw" ->
         "mem_write16(cpu, cpu->es, cpu->di, cpu->ax); cpu->di += df(cpu) ? -2 : 2;"
    [] m = "lodsb" ->
         "cpu->al = mem_read8(cpu, cpu->ds, cpu->si); cpu->si += df(cpu) ? -1 : 1;"
    [] m = "lodsw" ->
         "cpu->ax = mem_read16(cpu, cpu->ds, cpu->si); cpu->si += df(cpu) ? -2 : 2;"
    [] m = "scasb" ->
         "flags_cmp8(cpu, cpu->al, mem_read8(cpu, cpu->es, cpu->di)); "
           \o "cpu->di += df(cpu) ? -1 : 1;"
    [] m = "scasw" ->
         "flags_cmp16(cpu, cpu->ax, mem_read16(cpu, cpu->es, cpu->di)); "
           \o "cpu->di += df(cpu) ? -2 : 2;"
    [] m = "cmpsb" ->
         "flags_cmp8(cpu, mem_read8(cpu, cpu->ds, cpu->si), "
           \o "mem_read8(cpu, cpu->es, cpu->di)); "
           \o "cpu->si += df(cpu) ? -1 : 1; cpu->di += df(cpu) ? -1 : 1;"
    [] m = "cmpsw" ->
         "flags_cmp16(cpu, mem_read16(cpu, cpu->ds, cpu->si), "
           \o "mem_read16(cpu, cpu->es, cpu->di)); "
           \o "cpu->si += df(cpu) ? -2 : 2; cpu->di += df(cpu) ? -2 : 2;"

StringOps ==
  {"movsb", "movsw", "stosb", "stosw", "lodsb", "lodsw",
   "scasb", "scasw", "cmpsb", "cmpsw"}

FlagOpCode(m) ==
  CASE m = "clc" -> "cpu->flags &= ~FLAG_CF;"
    [] m = "stc" -> "cpu->flags |= FLAG_CF;"
    [] m = "cmc" -> "cpu->flags ^= FLAG_CF;"
    [] m = "cld" -> "cpu->flags &= ~FLAG_DF;"
    [] m = "std" -> "cpu->flags |= FLAG_DF;"
    [] m = "cli" -> "cpu->flags &= ~FLAG_IF;"
    [] m = "sti" -> "cpu->flags |= FLAG_IF;"
    [] m = "sahf" -> "cpu->flags = (cpu->flags & 0xFF00) | cpu->ah;"
    [] m = "lahf" -> "cpu->ah = (uint8_t)(cpu->flags & 0xFF);"

FlagOps == {"clc", "stc", "cmc", "cld", "std", "cli", "sti", "sahf", "lahf"}

PushaCode ==
  "{ uint16_t _sp = cpu->sp; push16(cpu, cpu->ax); push16(cpu, cpu->cx); "
    \o "push16(cpu, cpu->dx); push16(cpu, cpu->bx); "
    \o "push16(cpu, _sp); push16(cpu, cpu->bp); "
    \o "push16(cpu, cpu->si); push16(cpu, cpu->di); }"

PopaCode ==
  "cpu->di = pop16(cpu); cpu->si = pop16(cpu); "
    \o "cpu->bp = pop16(cpu); (void)pop16(cpu); /* skip SP */ "
    \o "cpu->bx = pop16(cpu); cpu->dx = pop16(cpu); "
    \o "cpu->cx = pop16(cpu); cpu->ax = pop16(cpu);"

JccNames == {CC_NAMES[k] : k \in 1..16}

BcdNames == {"daa", "das", "aaa", "aas", "aam", "aad"}

EscNames == {ESC_NAMES[k] : k \in 1..8}

\* the mnemonics whose arm reads a field of op1, and those that read op2 too
ReadsOp2 ==
  {"mov", "xchg", "lea", "lds", "les", "add", "adc", "sub", "sbb", "cmp",
   "and", "or", "xor", "test", "shl", "sal", "shr", "sar",
   "rol", "ror", "rcl", "rcr"}

ReadsOp1 ==
  ReadsOp2
    \cup {"push", "pop", "inc", "dec", "neg", "mul", "imul", "div",
          "idiv", "not", "loop", "loopz", "loopnz", "jcxz", "int", "enter", "db"}
    \cup JccNames

\* a ladder whose one-operand arms read the second operand as well
LiftRaisesReadingBoth(inst) ==
  \/ inst.mnemonic \in ReadsOp1 /\ inst.op1 = NoOperand
  \/ inst.mnemonic \in ReadsOp1 /\ inst.op2 = NoOperand

\* an operand that is None where the arm reads its fields: AttributeError
LiftRaises(inst) ==
  \/ inst.mnemonic \in ReadsOp1 /\ inst.op1 = NoOperand
  \/ inst.mnemonic \in ReadsOp2 /\ inst.op2 = NoOperand

\* the mnemonics the ladder has an arm for
Translated ==
  ReadsOp1 \cup ReadsOp2 \cup StringOps \cup FlagOps \cup BcdNames \cup EscNames
    \cup {"cbw", "cwd", "pushf", "popf", "pusha", "popa", "jmp", "call", "ret",
          "retf", "nop", "xlat", "hlt", "iret", "leave", "in", "out", "wait"}

UnhandledCode(orig) == "/* UNHANDLED: " \o orig \o " */"

EmittedBy(inst, orig, fstart) ==
  CASE inst.mnemonic = "mov" -> Emit(write(inst.op1, read(inst.op2)), orig)
    [] inst.mnemonic = "xchg" ->
         Emit("{ uint16_t _t = " \o read(inst.op1) \o "; "
                \o write(inst.op1, read(inst.op2)) \o " "
                \o write(inst.op2, "_t") \o " }", orig)
    [] inst.mnemonic = "lea" -> Emit(write(inst.op1, mem_addr(inst.op2).off), orig)
    [] inst.mnemonic \in {"lds", "les"} ->
         Emit(reg16(inst.op1) \o " = mem_read16(cpu, " \o mem_addr(inst.op2).seg
                \o ", " \o mem_addr(inst.op2).off \o ");", orig)
           \o Emit((IF inst.mnemonic = "lds" THEN "cpu->ds" ELSE "cpu->es")
                     \o " = mem_read16(cpu, " \o mem_addr(inst.op2).seg
                     \o ", (uint16_t)(" \o mem_addr(inst.op2).off \o " + 2));", "")
    [] inst.mnemonic = "cbw" -> Emit("cpu->ax = (uint16_t)(int16_t)(int8_t)cpu->al;", orig)
    [] inst.mnemonic = "cwd" ->
         Emit("cpu->dx = (cpu->ax & 0x8000) ? 0xFFFF : 0x0000;", orig)
    [] inst.mnemonic = "push" -> Emit("push16(cpu, " \o read(inst.op1) \o ");", orig)
    [] inst.mnemonic = "pop" -> Emit(write(inst.op1, "pop16(cpu)"), orig)
    [] inst.mnemonic = "pushf" -> Emit("push16(cpu, cpu->flags);", orig)
    [] inst.mnemonic = "popf" -> Emit("cpu->flags = pop16(cpu);", orig)
    [] inst.mnemonic = "pusha" -> Emit(PushaCode, orig)
    [] inst.mnemonic = "popa" -> Emit(PopaCode, orig)
    [] inst.mnemonic \in {"add", "adc", "sub", "sbb"} ->
         Emit(ArithCode(inst.mnemonic, inst.op1, inst.op2), orig)
    [] inst.mnemonic = "cmp" ->
         Emit("flags_cmp" \o Sz(inst.op1) \o "(cpu, " \o read(inst.op1) \o ", "
                \o read(inst.op2) \o ");", orig)
    [] inst.mnemonic \in {"inc", "dec"} -> Emit(IncDecCode(inst.mnemonic, inst.op1), orig)
    [] inst.mnemonic = "neg" ->
         Emit(write(inst.op1, "flags_sub" \o Sz(inst.op1) \o "(cpu, 0, "
                                \o read(inst.op1) \o ")"), orig)
    [] inst.mnemonic = "mul" -> Emit(MulCode(inst.op1), orig)
    [] inst.mnemonic = "imul" -> Emit(ImulCode(inst.op1), orig)
    [] inst.mnemonic = "div" -> Emit(DivCode(inst.op1), orig)
    [] inst.mnemonic = "idiv" -> Emit(IdivCode(inst.op1), orig)
    [] inst.mnemonic \in {"and", "or", "xor"} ->
         Emit(LogicCode(inst.mnemonic, inst.op1, inst.op2), orig)
    [] inst.mnemonic = "test" ->
         Emit("flags_logic" \o Sz(inst.op1) \o "(cpu, " \o read(inst.op1) \o " & "
                \o read(inst.op2) \o ");", orig)
    [] inst.mnemonic = "not" -> Emit(write(inst.op1, "~" \o read(inst.op1)), orig)
    [] inst.mnemonic \in {"shl", "sal"} -> Emit(ShlCode(inst.op1, inst.op2), orig)
    [] inst.mnemonic = "shr" -> Emit(ShrCode(inst.op1, inst.op2), orig)
    [] inst.mnemonic = "sar" -> Emit(SarCode(inst.op1, inst.op2), orig)
    [] inst.mnemonic \in {"rol", "ror", "rcl", "rcr"} ->
         Emit("/* TODO: " \o inst.mnemonic \o " " \o read(inst.op1) \o ", "
                \o read(inst.op2) \o " */", orig)
    [] inst.mnemonic = "jmp" -> Emit(JmpCode(inst.op1), orig)
    [] inst.mnemonic \in JccNames ->
         Emit("if (" \o CC_MAP(inst.mnemonic) \o "(cpu)) goto "
                \o label(inst.op1.disp) \o ";", orig)
    [] inst.mnemonic = "loop" ->
         Emit("cpu->cx--; if (cpu->cx != 0) goto " \o label(inst.op1.disp) \o ";", orig)
    [] inst.mnemonic = "loopz" ->
         Emit("cpu->cx--; if (cpu->cx != 0 && zf(cpu)) goto "
                \o label(inst.op1.disp) \o ";", orig)
    [] inst.mnemonic = "loopnz" ->
         Emit("cpu->cx--; if (cpu->cx != 0 && !zf(cpu)) goto "
                \o label(inst.op1.disp) \o ";", orig)
    [] inst.mnemonic = "jcxz" ->
         Emit("if (cpu->cx == 0) goto " \o label(inst.op1.disp) \o ";", orig)
    [] inst.mnemonic = "call" -> Emit(CallCode(inst.op1, fstart), orig)
    [] inst.mnemonic \in {"ret", "retf"} -> Emit(RetCode(inst.op1), orig)
    [] inst.mnemonic = "int" -> IntLines(inst, orig)
    [] inst.mnemonic \in StringOps -> Emit(StringOpCode(inst.mnemonic), orig)
    [] inst.mnemonic \in FlagOps -> Emit(FlagOpCode(inst.mnemonic), orig)
    [] inst.mnemonic = "nop" -> Emit("/* nop */", orig)
    [] inst.mnemonic = "xlat" ->
         Emit("cpu->al = mem_read8(cpu, cpu->ds, (uint16_t)(cpu->bx + cpu->al));", orig)
    [] inst.mnemonic = "hlt" -> Emit("cpu->halted = 1; return;", orig)
    [] inst.mnemonic = "iret" ->
         Emit("/* iret - return from interrupt */", orig) \o Emit("return;", "")
    [] inst.mnemonic = "enter" ->
         Emit("push16(cpu, cpu->bp); cpu->bp = cpu->sp; cpu->sp -= 0x"
                \o HexStr(inst.op1.disp) \o ";", orig)
    [] inst.mnemonic = "leave" -> Emit("cpu->sp = cpu->bp; cpu->bp = pop16(cpu);", orig)
    [] inst.mnemonic \in {"in", "out"} -> Emit("/* " \o orig \o " - port I/O stub */", orig)
    [] inst.mnemonic = "wait" -> Emit("/* wait */", orig)
    [] inst.mnemonic \in EscNames -> Emit("/* FPU: " \o orig \o " */", orig)
    [] inst.mnemonic = "db" ->
         Emit("/* data byte: 0x" \o ZeroFill(HexStr(inst.op1.disp), 2) \o " */", orig)
    [] inst.mnemonic \in BcdNames -> Emit("/* BCD: " \o orig \o " - stub */", orig)
    [] OTHER -> Emit(UnhandledCode(orig), orig)

\* what the arm adds to labels_needed, func_calls and ovl_calls
LabelsAddedBy(inst) ==
  IF \/ inst.mnemonic = "jmp" /\ IsRelative(inst.op1)
     \/ inst.mnemonic \in JccNames \cup {"loop", "loopz", "loopnz", "jcxz"}
  THEN {inst.op1.disp} ELSE {}

FuncCallsAddedBy(inst, fstart) ==
  IF inst.mnemonic = "call" /\ inst.op1.type \in {"REL16", "FAR"}
  THEN {CallName(inst.op1, fstart)} ELSE {}

OvlCallsAddedBy(inst) ==
  IF inst.mnemonic = "int" /\ IsOverlayCall(inst) THEN {OvlName(inst)} ELSE {}

\* _emit at the current indent for each pair
AtIndent(ind, pairs) ==
  [k \in 1..Len(pairs) |-> Line(ind, pairs[k].code, pairs[k].comment)]

\* lift_instruction as a whole: the label, then the lines of the arm; lf holds
\* the fields of the Lifter
LiftInstruction(lf, inst, fstart) ==
  IF LiftRaises(inst)
  THEN [lf EXCEPT !.raised = "AttributeError",
                  !.output = @ \o LabelLines(lf.labels_needed, inst.address)]
  ELSE [lf EXCEPT
          !.output =
             @ \o LabelLines(lf.labels_needed, inst.address)
               \o AtIndent(lf.indent, EmittedBy(inst, InstructionRepr(inst), fstart)),
          !.labels_needed = @ \cup LabelsAddedBy(inst),
          !.func_calls = @ \cup FuncCallsAddedBy(inst, fstart),
          !.ovl_calls = @ \cup OvlCallsAddedBy(inst)]

(***************************************************************************)
(* lift.py: Lifter.lift_function                                           *)
(***************************************************************************)
JumpNames == {"jmp", "loop", "loopz", "loopnz", "jcxz"} \cup JccNames

\* first pass: the targets of the relative jumps
FirstPass(insts) ==
  {insts[k].op1.disp :
     k \in {j \in 1..Len(insts) :
              insts[j].mnemonic \in JumpNames /\ IsRelative(insts[j].op1)}}

\* which of the three wrapping branches of the second pass takes the
\* instruction: the text after 'while' in its comment, "" for the else branch
WrapKind(inst) ==
  IF inst.prefix = "rep" /\ inst.mnemonic \in {"movsb", "movsw", "stosb", "stosw"}
  THEN "rep"
  ELSE IF inst.prefix = "rep" /\ inst.mnemonic \in {"scasb", "scasw", "cmpsb", "cmpsw"}
  THEN "repz"
  ELSE IF inst.prefix = "repnz" /\ inst.mnemonic \in {"scasb", "scasw", "cmpsb", "cmpsw"}
  THEN "repnz"
  ELSE ""

WhileCode == "while (cpu->cx != 0) { cpu->cx--;"

\* the label, the while line, indent += 1
WrapOpen(lf, inst, kind) ==
  [lf EXCEPT
     !.output = @ \o LabelLines(lf.labels_needed, inst.address)
                  \o <<Line(lf.indent, WhileCode, kind \o " " \o inst.mnemonic)>>,
     !.indent = @ + 1]

\* the break of repz / repnz, indent -= 1, the closing brace
WrapClose(lf, kind) ==
  [lf EXCEPT
     !.output = @ \o (IF kind = "repz" THEN <<Line(lf.indent, "if (!zf(cpu)) break;", "")>>
                      ELSE IF kind = "repnz"
                      THEN <<Line(lf.indent, "if (zf(cpu)) break;", "")>>
                      ELSE <<>>)
                  \o <<Line(lf.indent - 1, "}", "")>>,
     !.indent = @ - 1]

\* a wrapped instruction: what is left when lift_instruction raised inside
WrapAfter(r, kind) == IF r.raised # "" THEN r ELSE WrapClose(r, kind)

LiftWrapped(lf, inst, fstart) ==
  WrapAfter(LiftInstruction(WrapOpen(lf, inst, WrapKind(inst)),
                            [inst EXCEPT !.prefix = ""], fstart),
            WrapKind(inst))

(***************************************************************************)
(* The lifter as a state machine: a Lifter on which lift_function(fname,   *)
(* linsts, func_start) is called; li is the position of the second pass.   *)
(***************************************************************************)
LifterFields ==
  [output |-> output, indent |-> indent, labels_needed |-> labels_needed,
   func_calls |-> func_calls, ovl_calls |-> ovl_calls, raised |-> ""]

InitLifter(lists, starts) ==
  /\ linsts \in lists
  /\ func_start \in starts
  /\ fname = "res_" \o ZeroFill(HexStr(func_start), 6)
  /\ output = <<>>
  /\ indent = 1
  /\ labels_needed = {}
  /\ func_calls = {}
  /\ ovl_calls = {}
  /\ li = 0
  /\ lpc = "constructed"
  /\ data = <<>>
  /\ base = 0
  /\ pos = 0
  /\ rangeStart = 0
  /\ rangeEnd = 0
  /\ instructions = <<>>
  /\ pc = "idle"
  /\ fileData = <<>>
  /\ hdr_size = 0
  /\ img_size = 0
  /\ overlays = <<>>
  /\ functions = <<>>
  /\ strings = <<>>
  /\ apc = "none"
  /\ NoResolver

\* the resets, the first pass and the two header lines
LiftBegin ==
  /\ lpc = "constructed"
  /\ output' = <<RawLine("void " \o fname \o "(CPU *cpu)"), RawLine("{")>>
  /\ labels_needed' = FirstPass(linsts)
  /\ func_calls' = {}
  /\ ovl_calls' = {}
  /\ indent' = 1
  /\ li' = 1
  /\ lpc' = "lifting"
  /\ UNCHANGED <<fname, linsts, func_start, dvars, avars, rvars>>

LiftAssign(r) ==
  /\ output' = r.output
  /\ indent' = r.indent
  /\ labels_needed' = r.labels_needed
  /\ func_calls' = r.func_calls
  /\ ovl_calls' = r.ovl_calls
  /\ lpc' = IF r.raised # "" THEN r.raised ELSE "lifting"
  /\ li' = IF r.raised # "" THEN li ELSE li + 1
  /\ UNCHANGED <<fname, linsts, func_start, dvars, avars, rvars>>

\* one round of the second pass: a string primitive under a repeat prefix
LiftRepStep ==
  /\ lpc = "lifting"
  /\ li <= Len(linsts)
  /\ WrapKind(linsts[li]) # ""
  /\ \E r \in {LiftWrapped(LifterFields, linsts[li], func_start)} : LiftAssign(r)

\* one round of the second pass: any other instruction
LiftStep ==
  /\ lpc = "lifting"
  /\ li <= Len(linsts)
  /\ WrapKind(linsts[li]) = ""
  /\ \E r \in {LiftInstruction(LifterFields, linsts[li], func_start)} : LiftAssign(r)

\* the closing brace; lift_function returns the lines joined
LiftEnd ==
  /\ lpc = "lifting"
  /\ li > Len(linsts)
  /\ output' = Append(output, RawLine("}"))
  /\ lpc' = "done"
  /\ UNCHANGED <<fname, linsts, func_start, indent, labels_needed, func_calls,
                 ovl_calls, li, dvars, avars, rvars>>

NextLifter == LiftBegin \/ LiftRepStep \/ LiftStep \/ LiftEnd

\* the instruction lists lifted: the sweeps of the buffers over an alphabet
SweepsOver(alphabet, maxLen) == {DecodeAll(d, 0) : d \in BuffersOver(alphabet, maxLen)}

\* jne, jmp short, loop, the repeat prefixes, movsb, lodsb, scasb, add, ret
AlphabetLift == {\H75, \HEB, \HE2, \HF3, \HF2, \HA4, \HAC, \HAE, \H00, \HC3}

SpecLift == InitLifter(SweepsOver(AlphabetLift, MaxLenLift), {\H100}) /\ [][NextLifter]_vars

\* the second bytes of the one-instruction buffers: every reg field under
\* twelve (mod, rm) pairs
ModRMSample ==
  {mod * 64 + reg * 8 + rm :
     mod \in 0..3, reg \in 0..7, rm \in {0, 4, 5, 6}} \ 
  {mod * 64 + reg * 8 + rm : mod \in {0, 1}, reg \in 0..7, rm \in {4, 5}}

\* every opcode byte followed by a sampled second byte and four more bytes
OpcodeSweeps ==
  {DecodeAll(<<op, b, \H34, \H12, \H78, \H56>>, 0) : op \in 0..255, b \in ModRMSample}

SpecLiftAny == InitLifter(OpcodeSweeps, {0, \H100}) /\ [][NextLifter]_vars

(***************************************************************************)
(* Vocabulary of the lifter claims                                         *)
(***************************************************************************)
OutputCodes == {output[k].code : k \in 1..Len(output)}

\* the statements with a goto to L_t that the ladder can print
GotoCodes(t) ==
  {"goto " \o label(t) \o ";",
   "cpu->cx--; if (cpu->cx != 0) goto " \o label(t) \o ";",
   "cpu->cx--; if (cpu->cx != 0 && zf(cpu)) goto " \o label(t) \o ";",
   "cpu->cx--; if (cpu->cx != 0 && !zf(cpu)) goto " \o label(t) \o ";",
   "if (cpu->cx == 0) goto " \o label(t) \o ";"}
    \cup {"if (" \o CC_CODES[k] \o "(cpu)) goto " \o label(t) \o ";" : k \in 1..16}

\* the values a target is taken from: the first operands of the instructions
FirstOperandValues == {linsts[k].op1.disp : k \in 1..Len(linsts)}

GotoEmitted(t) == GotoCodes(t) \cap OutputCodes # {}

LabelDeclared(t) == (label(t) \o ":;") \in OutputCodes

(***************************************************************************)
(* C18: every goto L_t in the body lift_function returns has the label     *)
(* L_t declared in the same body.                                          *)
(***************************************************************************)
C18_EveryGotoHasItsLabel ==
  lpc = "done" => \A t \in FirstOperandValues : GotoEmitted(t) => LabelDeclared(t)

\* the lines one round of the second pass added, the labels left out
AddedCodes ==
  LET Added == SubSeq(output', Len(output) + 1, Len(output'))
      NotLabel(l) == l.code # label(linsts[li].address) \o ":;"
      Kept == SelectSeq(Added, NotLabel)
  IN [k \in 1..Len(Kept) |-> Kept[k].code]

LiftedOne == lpc = "lifting" /\ li <= Len(linsts) /\ li' = li + 1

\* the loop the claim describes for a string primitive
ClaimedStringCodes(inst) ==
  IF inst.prefix \in {"rep", "repnz"}
  THEN <<"while (cpu->cx != 0) { cpu->cx--;", StringOpCode(inst.mnemonic)>>
         \o (IF inst.mnemonic \in {"cmpsb", "cmpsw", "scasb", "scasw"}
             THEN <<IF inst.prefix = "repnz" THEN "if (zf(cpu)) break;"
                    ELSE "if (!zf(cpu)) break;">>
             ELSE <<>>)
         \o <<"}">>
  ELSE <<StringOpCode(inst.mnemonic)>>

(***************************************************************************)
(* C19: every string primitive (movs, stos, lods, cmps, scas) under a rep  *)
(* or repnz prefix is lifted to while (cx != 0) { cx--; body }, for cmps   *)
(* and scas with a break on ZF clear under rep and on ZF set under repnz   *)
(* after the body; without a prefix the bare body is emitted.              *)
(***************************************************************************)
C19_RepeatedStringOpsLoop ==
  [][LiftedOne /\ linsts[li].mnemonic \in StringOps
       => AddedCodes = ClaimedStringCodes(linsts[li])]_vars

(***************************************************************************)
(* C20: lift_instruction returns without raising and emits at least one    *)
(* line for every instruction the decoder produces; a mnemonic the ladder  *)
(* has no arm for yields one comment line with UNHANDLED; the output of    *)
(* lift_function starts with the routine header and '{' and ends with '}'. *)
(***************************************************************************)
C20_LiftIsTotal ==
  /\ [](lpc \in {"constructed", "lifting", "done"})
  /\ [](lpc \in {"lifting", "done"} =>
          /\ output[1] = RawLine("void " \o fname \o "(CPU *cpu)")
          /\ output[2] = RawLine("{"))
  /\ [](lpc = "done" => output[Len(output)] = RawLine("}"))
  /\ [][LiftedOne =>
          /\ Len(AddedCodes) >= 1
          /\ linsts[li].mnemonic \notin Translated =>
               AddedCodes = <<"/* UNHANDLED: " \o InstructionRepr(linsts[li]) \o " */">>]_vars

\* a function lifted to the end that held an instruction without an arm
C20_Witness ==
  /\ lpc = "done"
  /\ \E k \in 1..Len(linsts) : linsts[k].mnemonic = "jmp far"
  /\ \E k \in 1..Len(output) :
       output[k].code = "/* UNHANDLED: jmp far word ds:[bx+si] */"
(***************************************************************************)
(* Functions made of calls, interrupts and overlay traps                   *)
(***************************************************************************)
\* int 3Fh with module 7, entry 0x1234
OverlayTrap7 == <<\HCD, \H3F, \H07, \H34, \H12>>

\* int 3Fh with module 100, entry 0x0100
OverlayTrap100 == <<\HCD, \H3F, \H64, \H00, \H01>>

\* int 21h
IntDos == <<\HCD, \H21>>

\* call ax
CallReg == <<\HFF, \HD0>>

\* call word [0x1000]
CallMem == <<\HFF, \H16, \H00, \H10>>

\* call far [0x1000]
CallFarMem == <<\HFF, \H1E, \H00, \H10>>

\* rep movsb
RepMovs == <<\HF3, \HA4>>

\* jmp short to four bytes before the next instruction
JmpBack4 == <<\HEB, \HFC>>

CallChunks ==
  {OverlayTrap, OverlayTrap7, OverlayTrap100, IntDos, CallNext, CallBack6,
   CallFarPtr, CallReg, CallMem, CallFarMem, RepMovs, JmpBack4}

CallSweeps == {DecodeAll(d, 0) : d \in CodeOver(CallChunks, MaxCallChunks)}

SpecLiftCalls == InitLifter(CallSweeps, {0, \H100}) /\ [][NextLifter]_vars

\* the statements that hand an interrupt to the runtime
InterruptDispatch(n) ==
  {"dos_int21(cpu);", "bios_int10(cpu);", "bios_int16(cpu);", "mouse_int33(cpu);",
   "int_handler(cpu, 0x" \o ZeroFill(HexStr(n), 2) \o ");"}

CarriesOverlayPayload(inst) == inst.overlay_num >= 0

\* ovl, the module index in decimal filled with zeros to two places, _, the
\* entry offset in four hex digits
OverlayCallName(m, o) ==
  "ovl" \o ZeroFill(DecStr(m), 2) \o "_" \o ZeroFill(HexStr(o), 4)

OverlayCallLifted(inst) ==
  /\ AddedCodes = <<OverlayCallName(inst.overlay_num, inst.overlay_off) \o "(cpu);">>
  /\ ovl_calls' = ovl_calls \cup {OverlayCallName(inst.overlay_num, inst.overlay_off)}
  /\ \A k \in 1..Len(AddedCodes) : AddedCodes[k] \notin InterruptDispatch(inst.op1.disp)

(***************************************************************************)
(* C21 as stated: an instruction with an overlay payload (m, o) is lifted  *)
(* to exactly ovlNN_XXXX(cpu), NN the module index in two digits and XXXX  *)
(* the entry offset in four hex digits; the name goes to ovl_calls and no  *)
(* interrupt dispatch is emitted.                                          *)
(***************************************************************************)
C21_OverlayCallTwoDigits ==
  [][LiftedOne /\ CarriesOverlayPayload(linsts[li])
       => /\ OverlayCallLifted(linsts[li])
          /\ Len(AddedCodes[1]) = Len("ovlNN_XXXX(cpu);")]_vars

(***************************************************************************)
(* C21 amended: as above, NN being the module index in decimal filled with *)
(* zeros to at least two digits, three digits for the modules 100..255.    *)
(***************************************************************************)
C21_OverlayCallByName ==
  [][LiftedOne /\ CarriesOverlayPayload(linsts[li])
       => OverlayCallLifted(linsts[li])]_vars

\* the traps of module 7 and of module 100 have been lifted
C21_Witness ==
  /\ lpc = "done"
  /\ {"ovl07_1234", "ovl100_0100"} \subseteq ovl_calls
  /\ \E k \in 1..Len(output) : output[k].code = "ovl07_1234(cpu);"

NearCallName(target) == "res_" \o ZeroFill(HexStr(func_start + target), 6)

FarCallName(seg, off) == "far_" \o ZeroFill(HexStr(seg), 4) \o "_" \o ZeroFill(HexStr(off), 4)

IsDirectNearCall(inst) == inst.mnemonic = "call" /\ inst.op1.type = "REL16"

IsImmediateFarCall(inst) == inst.mnemonic = "call" /\ inst.op1.type = "FAR"

IsCallForm(inst) == inst.mnemonic \in {"call", "call far"}

\* the two comments a call without a static target is lifted to
CallComments(inst) ==
  {"/* indirect call " \o OperandRepr(inst.op1) \o " - needs dispatch */",
   "/* UNHANDLED: " \o InstructionRepr(inst) \o " */"}

(***************************************************************************)
(* C22: a direct near call is lifted to res_<6 hex of func_start + decoded *)
(* target>(cpu), an immediate far call to far_<4 hex segment>_<4 hex       *)
(* offset>(cpu), and the name is added to func_calls; every other call     *)
(* form is lifted to a comment only and adds nothing to func_calls.        *)
(***************************************************************************)
C22_CallNames ==
  [][LiftedOne /\ IsCallForm(linsts[li]) =>
       IF IsDirectNearCall(linsts[li])
       THEN /\ AddedCodes = <<NearCallName(linsts[li].op1.disp) \o "(cpu);">>
            /\ func_calls' = func_calls \cup {NearCallName(linsts[li].op1.disp)}
       ELSE IF IsImmediateFarCall(linsts[li])
       THEN /\ AddedCodes =
                 <<FarCallName(linsts[li].op1.far_seg, linsts[li].op1.disp) \o "(cpu);">>
            /\ func_calls' = func_calls
                 \cup {FarCallName(linsts[li].op1.far_seg, linsts[li].op1.disp)}
       ELSE /\ Len(AddedCodes) = 1
            /\ AddedCodes[1] \in CallComments(linsts[li])
            /\ func_calls' = func_calls]_vars

\* a function at 0x100 lifted to the end: a near call to 3 or a far call to
\* 5678:1234, next to a call without a static target
C22_Witness ==
  /\ lpc = "done"
  /\ func_start = \H100
  /\ func_calls \in {{"res_000103"}, {"far_5678_1234"}}
  /\ \E k \in 1..Len(output) :
       output[k].code \in {"/* indirect call ax - needs dispatch */",
                           "/* UNHANDLED: call far word ds:[0x1000] */"}

(***************************************************************************)
(* Files for the overlay scan: a 512-byte resident part, whole 512-byte    *)
(* blocks, and a last module that may be cut short by the end of the file  *)
(***************************************************************************)
\* the first ten bytes of an MZ header: magic, bytes in the last page, page
\* count, relocation count, header paragraphs
ModuleHeader(magic2, last_page, pages, paras) ==
  <<\H4D, magic2, Lo(last_page), Hi(last_page), Lo(pages), Hi(pages), 0, 0,
    Lo(paras), Hi(paras)>>

\* a module of 36 bytes whose code window holds push bp; mov bp,sp; ret
CodeModule == ModuleHeader(\H5A, 36, 1, 2) \o Zeros(22) \o Prologue \o Ret

\* image sizes 36, 512 and 513: the scan starts at 512, 512 and 1024
ResidentHeads ==
  {CodeModule \o Zeros(476),
   ModuleHeader(\H5A, 0, 1, 32) \o Zeros(502),
   ModuleHeader(\H5A, 1, 2, 32) \o Zeros(502)}

HeaderShapes ==
  {ModuleHeader(m, olp, op, ohp) :
     m \in {\H5A, 0}, olp \in {0, 5, 40}, op \in {0, 1, 499, 500},
     ohp \in {0, 1, 2, 99, 100}}

\* the bytes of the last module after its first ten: it is 10, 28, 29 or 32
\* bytes long
TailLens == {0, 18, 19, 22}

LastModules == {h \o Zeros(n) : h \in HeaderShapes, n \in TailLens} \cup {CodeModule}

\* whole blocks: a module with a function, a module with an 8-byte code
\* window, a block without the magic, a module with 500 pages
ScanBlocks ==
  {CodeModule \o Zeros(476),
   ModuleHeader(\H5A, 40, 1, 2) \o Zeros(502),
   ModuleHeader(0, 40, 1, 2) \o Zeros(502),
   ModuleHeader(\H5A, 0, 500, 2) \o Zeros(502)}

OverlayScanFiles ==
  {head \o Flatten(blocks) \o last :
     head \in ResidentHeads,
     blocks \in UNION {[1..n -> ScanBlocks] : n \in 0..MaxScanBlocks},
     last \in LastModules}

InitOverlayScan ==
  /\ fileData \in OverlayScanFiles
  /\ hdr_size = HdrSize(fileData)
  /\ img_size = ImgSize(fileData)
  /\ overlays = <<>>
  /\ functions = <<>>
  /\ strings = <<>>
  /\ apc = "constructed"
  /\ data = <<>>
  /\ base = 0
  /\ pos = 0
  /\ rangeStart = 0
  /\ rangeEnd = 0
  /\ instructions = <<>>
  /\ pc = "idle"
  /\ NoLifter
  /\ NoResolver

SpecOverlays == InitOverlayScan /\ [][NextAnalyzer]_vars

AcceptedOffsets == {overlays[k].file_offset : k \in 1..Len(overlays)}

AlignedOffsets == {512 * k : k \in 0..(Len(fileData) \div 512)}

\* the header fields the claim reads are inside the file
HeaderReadable(s) == s + 9 < Len(fileData)

\* offsets the claim says are overlay modules
ClaimedOverlayOffsets ==
  {s \in AlignedOffsets :
     /\ s >= img_size
     /\ s < Len(fileData)
     /\ HeaderReadable(s)
     /\ U8(fileData, s) = \H4D /\ U8(fileData, s + 1) = \H5A
     /\ 0 < U16(fileData, s + 4) /\ U16(fileData, s + 4) < 500
     /\ 0 < U16(fileData, s + 8) /\ U16(fileData, s + 8) < 100}

(***************************************************************************)
(* C23: find_overlays accepts exactly the 512-byte-aligned offsets at or   *)
(* after image_size and before the end of the file whose bytes start with  *)
(* 4D 5A and whose page count p and header paragraphs h satisfy            *)
(* 0 < p < 500 and 0 < h < 100.                                            *)
(***************************************************************************)
C23_AcceptsExactlyTheValidHeaders ==
  apc = "overlays_found" => AcceptedOffsets = ClaimedOverlayOffsets

(***************************************************************************)
(* C29: every overlay module find_overlays accepts has code_size >= 0 and  *)
(* a code window [code_offset, code_offset + code_size) that starts at or  *)
(* after the module's header offset and ends at or before the end of the   *)
(* file.                                                                   *)
(***************************************************************************)
C29_CodeWindowInsideFile ==
  apc = "overlays_found" =>
    \A k \in 1..Len(overlays) :
      /\ overlays[k].code_size >= 0
      /\ overlays[k].code_offset >= overlays[k].file_offset
      /\ overlays[k].code_offset + overlays[k].code_size <= Len(fileData)

\* the functions the overlay at position k of the list holds
OverlayFunctionIdx(k) == {overlays[k].functions[j] : j \in 1..Len(overlays[k].functions)}

ResidentFunctionIdx ==
  (1..Len(functions)) \ UNION {OverlayFunctionIdx(k) : k \in 1..Len(overlays)}

(***************************************************************************)
(* C24: after find_overlays the overlay list carries the indices 1, 2, ..., *)
(* n in list order with strictly increasing file_offset, and               *)
(* detect_all_functions gives every function of overlay k overlay_num = k  *)
(* and every resident function overlay_num = 0.                            *)
(***************************************************************************)
C24_DenseIndicesAndTags ==
  /\ \A k \in 1..Len(overlays) :
       /\ overlays[k].index = k
       /\ k > 1 => overlays[k - 1].file_offset < overlays[k].file_offset
  /\ apc \in {"analyzed", "strings_extracted", "categorized"} =>
       /\ \A k \in 1..Len(overlays) : \A i \in OverlayFunctionIdx(k) :
            functions[i].overlay_num = k
       /\ \A i \in ResidentFunctionIdx : functions[i].overlay_num = 0

\* two modules found, with functions in the resident code and in both modules
C24_Witness ==
  /\ apc = "analyzed"
  /\ Len(overlays) = 2
  /\ ResidentFunctionIdx # {}
  /\ OverlayFunctionIdx(1) # {}
  /\ OverlayFunctionIdx(2) # {}

\* decode_range run again from the place instruction k of the last sweep
\* began (its offset less the decoder's base), with the same end
Resweep(k) == DecodeRange(data, base, instructions[k].offset - base, rangeEnd)

PipelineFiles ==
  {ResidentImage(res) \o OverlayModule(ovl) :
     res \in CodeOver({Prologue, OverlayTrap, RepMovs}, MaxPipeChunks),
     ovl \in CodeOver({Prologue, CallBack6, Ret}, MaxPipeChunks)}

InitPipeline ==
  /\ fileData \in PipelineFiles
  /\ hdr_size = HdrSize(fileData)
  /\ img_size = ImgSize(fileData)
  /\ overlays = <<>>
  /\ functions = <<>>
  /\ strings = <<>>
  /\ apc = "constructed"
  /\ data = <<>>
  /\ base = 0
  /\ pos = 0
  /\ rangeStart = 0
  /\ rangeEnd = 0
  /\ instructions = <<>>
  /\ pc = "idle"
  /\ NoLifter
  /\ NoResolver

\* Lifter() and the arguments of lift_function: the name and the instructions
\* of a function of the analyzer, func_start its start or its region's start
CallLiftFunction ==
  /\ apc \in {"analyzed", "strings_extracted", "categorized"}
  /\ lpc \in {"none", "done"}
  /\ \E i \in 1..Len(functions) :
       /\ fname' = functions[i].name
       /\ linsts' = InstsOf(functions[i])
       /\ func_start' \in {functions[i].start, RegionStartOf(functions[i].overlay_num)}
  /\ output' = <<>>
  /\ indent' = 1
  /\ labels_needed' = {}
  /\ func_calls' = {}
  /\ ovl_calls' = {}
  /\ li' = 0
  /\ lpc' = "constructed"
  /\ UNCHANGED <<dvars, avars, rvars>>

NextPipeline == NextAnalyzer \/ CallLiftFunction \/ NextLifter

SpecPipeline == InitPipeline /\ [][NextPipeline]_vars

\* the function being lifted
LiftedFunction == CHOOSE f \in Funcs : f.name = fname

\* the functions of overlay m that start at file offset t
StartingAt(m, t) == {g \in Funcs : g.overlay_num = m /\ g.start = t}

CallEmitted(name) == (name \o "(cpu);") \in OutputCodes

(***************************************************************************)
(* C26: the name the lifter emits for a statically resolved call is the    *)
(* analyzer's name of the callee: for a near call in an overlay function   *)
(* to the start of a function G of the same overlay, and for an overlay    *)
(* trap (m, o) whose entry point is the start of a function G of overlay   *)
(* m, the call emitted is G's name ovlNN_<6 hex file offset>.              *)
(***************************************************************************)
C26_EmittedNameIsAnalyzerName ==
  lpc = "done" =>
    \A k \in 1..Len(linsts) :
      /\ (LiftedFunction.overlay_num > 0 /\ IsDirectNearCall(linsts[k])) =>
           \A g \in StartingAt(LiftedFunction.overlay_num,
                               RegionStartOf(LiftedFunction.overlay_num)
                                 + linsts[k].op1.disp) :
             CallEmitted(g.name)
      /\ (CarriesOverlayPayload(linsts[k]) /\ linsts[k].overlay_num \in Regions) =>
           \A g \in StartingAt(linsts[k].overlay_num,
                               RegionStartOf(linsts[k].overlay_num)
                                 + linsts[k].overlay_off) :
             CallEmitted(g.name)

\* the lines of the output that declare L_t
Declarations(t) == {k \in 1..Len(output) : output[k].code = label(t) \o ":;"}

(***************************************************************************)
(* C27: in a lifted function every label L_t is declared at most once,     *)
(* also when t is the address of a string instruction under a repeat       *)
(* prefix that lift_function wraps in a while loop.                        *)
(***************************************************************************)
C27_LabelsDeclaredOnce ==
  lpc = "done" => \A t \in labels_needed : Cardinality(Declarations(t)) <= 1

\* the code windows of two regions have no file offset in common
WindowsDisjoint(r, q) ==
  \/ RegionEndOf(r) <= RegionStartOf(q)
  \/ RegionEndOf(q) <= RegionStartOf(r)
  \/ RegionEndOf(r) <= RegionStartOf(r)
  \/ RegionEndOf(q) <= RegionStartOf(q)

RangesDisjoint(f, g) == f.end <= g.start \/ g.end <= f.start

(***************************************************************************)
(* C28: the code windows of the resident region and of the accepted        *)
(* overlay modules are pairwise disjoint, so after detect_all_functions no *)
(* file offset lies in the range of more than one function and a near-call *)
(* target lies in the range of at most one function, whatever the order    *)
(* the functions are searched in.                                          *)
(***************************************************************************)
C28_WindowsAndRangesDisjoint ==
  apc = "analyzed" =>
    /\ \A r \in Regions : \A q \in Regions \ {r} : WindowsDisjoint(r, q)
    /\ \A i \in FuncIdx : \A j \in FuncIdx \ {i} :
         RangesDisjoint(functions[i], functions[j])
    /\ \A s \in FuncIdx : \A t \in NearTargets(functions[s]) :
         Cardinality({i \in FuncIdx : Contains(functions[i], t)}) <= 1

(***************************************************************************)
(* resolve_stubs.py.  Names are sequences of character codes, so that      *)
(* startswith, split and int(text, 16) act on the text of a name.          *)
(***************************************************************************)
TxtFar == <<102, 97, 114, 95>>

TxtRes == <<114, 101, 115, 95>>

TxtOvl == <<111, 118, 108>>

Underscore == 95

\* a name the regular expression of parse_stub_names accepts and no branch
\* of the loop parses: "reset"
TxtReset == <<114, 101, 115, 101, 116>>

StartsWith(s, p) == Len(s) >= Len(p) /\ SubSeq(s, 1, Len(p)) = p

\* str.split('_', maxsplit); maxsplit -1 is no limit
RECURSIVE Split(_, _)
Split(s, maxsplit) ==
  IF maxsplit = 0 \/ \A i \in 1..Len(s) : s[i] # Underscore
  THEN <<s>>
  ELSE LET i == CHOOSE j \in 1..Len(s) :
                  /\ s[j] = Underscore
                  /\ \A h \in 1..(j - 1) : s[h] # Underscore
       IN  <<SubSeq(s, 1, i - 1)>>
             \o Split(SubSeq(s, i + 1, Len(s)), maxsplit - 1)

HexDigitValue(c) ==
  IF c \in 48..57 THEN c - 48
  ELSE IF c \in 65..70 THEN c - 55
  ELSE IF c \in 97..102 THEN c - 87
  ELSE -1

RECURSIVE HexValue(_)
HexValue(s) ==
  IF s = <<>> THEN 0
  ELSE HexValue(SubSeq(s, 1, Len(s) - 1)) * 16 + HexDigitValue(s[Len(s)])

\* int(text, 16) of a text without sign, prefix, blank or digit separator
IntBase16(s) ==
  IF s # <<>> /\ \A i \in 1..Len(s) : HexDigitValue(s[i]) >= 0
  THEN [kind |-> "ok", value |-> HexValue(s)]
  ELSE [kind |-> "ValueError", value |-> 0]

LOAD_SEG == \H0100

\* an implementation that leaves the header size at its default
ComputeFileOffsetDefaultHeader(seg, off, hsize) ==
  ((seg + LOAD_SEG) * 16 + off) - (LOAD_SEG * 16) + \H200

compute_file_offset(seg, off, hsize) ==
  ((seg + LOAD_SEG) * 16 + off) - (LOAD_SEG * 16) + hsize

\* main: struct.unpack_from('<H', data, 8)[0] * 16
HdrSizeOf(d) == (d[9] + 256 * d[10]) * 16

\* a dict with no key
EmptyDict == [key \in {} |-> 0]

\* d[key] = value
DictPut(d, key, value) == (key :> value) @@ d

\* parse_function_names over the names of the header's declarations, in
\* the order of the lines
RECURSIVE parse_function_names(_)
parse_function_names(lines) ==
  IF lines = <<>> THEN EmptyDict
  ELSE LET name == lines[Len(lines)]
           names == parse_function_names(SubSeq(lines, 1, Len(lines) - 1))
       IN  IF StartsWith(name, TxtRes)
           THEN DictPut(names, IntBase16(SubSeq(name, 5, Len(name))).value, name)
           ELSE IF StartsWith(name, TxtOvl)
           THEN DictPut(names, IntBase16(Split(name, 1)[2]).value, name)
           ELSE names

\* identify_msc_library; None is "unknown", as the caller stores it
identify_msc_library(d, file_offset) ==
  IF file_offset < 0 \/ file_offset + 16 > Len(d) THEN "unknown"
  ELSE IF d[file_offset + 1] = \HCB THEN "retf_thunk"
  ELSE IF d[file_offset + 1] = \HC3 THEN "ret_thunk"
  ELSE IF d[file_offset + 1] = \HEA THEN "far_jmp_thunk"
  ELSE IF d[file_offset + 1] = \HB8 /\ d[file_offset + 4] \in {\HC3, \HCB}
  THEN "const_accessor"
  ELSE "unknown"

\* the file offset the loop computes from a stub name: kind "None" when no
\* branch parses the name, "IndexError" or "ValueError" when one raises
StubFileOff(name, hsize) ==
  IF StartsWith(name, TxtFar) THEN
    LET parts == Split(name, -1)
    IN  IF Len(parts) < 3 THEN [kind |-> "IndexError", value |-> 0]
        ELSE IF IntBase16(parts[2]).kind # "ok" THEN IntBase16(parts[2])
        ELSE IF IntBase16(parts[3]).kind # "ok" THEN IntBase16(parts[3])
        ELSE [kind |-> "ok",
              value |-> compute_file_offset(IntBase16(parts[2]).value,
                                            IntBase16(parts[3]).value, hsize)]
  ELSE IF StartsWith(name, TxtRes) THEN IntBase16(SubSeq(name, 5, Len(name)))
  ELSE IF StartsWith(name, TxtOvl) THEN
    LET parts == Split(name, 1)
    IN  IF Len(parts) < 2 THEN [kind |-> "IndexError", value |-> 0]
        ELSE IntBase16(parts[2])
  ELSE [kind |-> "None", value |-> 0]

\* for delta in range(-16, 17), from delta on: the first delta at which a
\* known function starts
RECURSIVE NearScan(_, _, _)
NearScan(known, file_off, delta) ==
  IF delta >= 17 THEN [found |-> FALSE, delta |-> 0]
  ELSE IF (file_off + delta) \in DOMAIN known
  THEN [found |-> TRUE, delta |-> delta]
  ELSE NearScan(known, file_off, delta + 1)

\* the body of the loop for one name: the collection it is put in and the
\* value stored with it, or the exception it raises
Categorize(name, d, known) ==
  LET fo == StubFileOff(name, HdrSizeOf(d))
      near == NearScan(known, fo.value, -16)
  IN  IF fo.kind \in {"IndexError", "ValueError"}
      THEN [class |-> fo.kind, value |-> <<>>]
      ELSE IF fo.kind = "None"
      THEN [class |-> "unresolvable", value |-> <<>>]
      ELSE IF fo.value \in DOMAIN known
      THEN [class |-> "resolved", value |-> known[fo.value]]
      ELSE IF near.found
      THEN [class |-> "aliases",
            value |-> <<known[fo.value + near.delta], near.delta>>]
      ELSE IF 0 < fo.value /\ fo.value < Len(d)
      THEN [class |-> "c_library",
            value |-> <<fo.value, identify_msc_library(d, fo.value)>>]
      ELSE [class |-> "unresolvable", value |-> <<>>]

\* the order of str: by code point, a proper prefix first
RECURSIVE TextLess(_, _)
TextLess(a, b) ==
  IF b = <<>> THEN FALSE
  ELSE IF a = <<>> THEN TRUE
  ELSE IF a[1] # b[1] THEN a[1] < b[1]
  ELSE TextLess(Tail(a), Tail(b))

\* sorted(resolved.items()): the keys are distinct, so the pairs are in the
\* order of the stub names
RECURSIVE SortedItems(_, _)
SortedItems(d, keys) ==
  IF keys = {} THEN <<>>
  ELSE LET k == CHOOSE x \in keys : \A y \in keys \ {x} : TextLess(x, y)
       IN  <<<<k, d[k]>>>> \o SortedItems(d, keys \ {k})

\* the digits of the names: format codes 04X and 06X, and 02d
HexDigitCode(n) == IF n < 10 THEN 48 + n ELSE 55 + n

RECURSIVE HexText(_, _)
HexText(n, width) ==
  IF width <= 1 /\ n < 16 THEN <<HexDigitCode(n)>>
  ELSE HexText(n \div 16, width - 1) \o <<HexDigitCode(n % 16)>>

RECURSIVE DecText(_, _)
DecText(n, width) ==
  IF width <= 1 /\ n < 10 THEN <<48 + n>>
  ELSE DecText(n \div 10, width - 1) \o <<48 + (n % 10)>>

\* the names the lifter calls: far_SSSS_XXXX, res_XXXXXX, ovlNN_XXXX; and a
\* name of the stubs file that is none of them
StubText(r) ==
  IF r.kind = "far"
  THEN TxtFar \o HexText(r.seg, 4) \o <<Underscore>> \o HexText(r.off, 4)
  ELSE IF r.kind = "res" THEN TxtRes \o HexText(r.off, 6)
  ELSE IF r.kind = "ovl"
  THEN TxtOvl \o DecText(r.m, 2) \o <<Underscore>> \o HexText(r.off, 4)
  ELSE TxtReset

FarStub(s, o) == [kind |-> "far", m |-> 0, seg |-> s, off |-> o]

ResStub(o) == [kind |-> "res", m |-> 0, seg |-> 0, off |-> o]

OvlStub(n, o) == [kind |-> "ovl", m |-> n, seg |-> 0, off |-> o]

OtherStub == [kind |-> "other", m |-> 0, seg |-> 0, off |-> 0]

\* the stubs a run draws from, in the order of the stubs file
StubPool ==
  << FarStub(0, \H10), FarStub(1, \H10), ResStub(\H30), ResStub(\H31),
     ResStub(0), ResStub(\H1F), ResStub(\H70), ResStub(\H61), ResStub(\H60),
     OvlStub(1, \H3C), OvlStub(100, \H30), OtherStub >>

RECURSIVE Ascending(_)
Ascending(S) ==
  IF S = {} THEN <<>>
  ELSE LET i == CHOOSE x \in S : \A y \in S : x <= y
       IN  <<i>> \o Ascending(S \ {i})

Reversed(s) == [k \in 1..Len(s) |-> s[Len(s) + 1 - k]]

\* the stubs files: up to MaxStubs distinct names, in the order of the pool
\* or in the opposite order
StubFiles ==
  UNION { {[k \in 1..Len(Ascending(S)) |-> StubText(StubPool[Ascending(S)[k]])],
           [k \in 1..Len(Ascending(S)) |->
              StubText(StubPool[Reversed(Ascending(S))[k]])]} :
          S \in {T \in SUBSET (1..Len(StubPool)) : Cardinality(T) <= MaxStubs} }

\* the names of the analyzer's functions: res_XXXXXX and ovlNN_XXXXXX
ResFuncText(o) == TxtRes \o HexText(o, 6)

OvlFuncText(n, o) == TxtOvl \o DecText(n, 2) \o <<Underscore>> \o HexText(o, 6)

\* the declarations of civ_recomp.h: none; two functions 32 bytes apart;
\* three functions 16 bytes apart and a fourth at the offset of the first
HeaderFiles ==
  { <<>>,
    <<ResFuncText(\H30), OvlFuncText(1, \H50)>>,
    <<ResFuncText(\H20), ResFuncText(\H30), ResFuncText(\H40),
      OvlFuncText(2, \H20)>> }

ExeLen == \H70

\* an executable of ExeLen bytes with the given count of header paragraphs
\* and the given bytes at the given offsets
ExeFile(paras, patch) ==
  [k \in 1..ExeLen |->
     IF (k - 1) \in DOMAIN patch THEN patch[k - 1]
     ELSE IF k = 1 THEN \H4D
     ELSE IF k = 2 THEN \H5A
     ELSE IF k = 9 THEN paras
     ELSE 0]

ExeFiles ==
  { ExeFile(p, b) :
      p \in {1, 2},
      b \in { (\H1F :> \HCB) @@ (\H31 :> \HC3) @@ (\H3C :> \HEA),
              (\H1F :> \HB8) @@ (\H22 :> \HC3) @@ (\H31 :> \HB8)
                @@ (\H3C :> \HB8) @@ (\H3F :> \HCB) @@ (\H60 :> \HC3) } }

\* main has read the executable, the header and the stubs file
InitResolver ==
  /\ data = <<>>
  /\ base = 0
  /\ pos = 0
  /\ rangeStart = 0
  /\ rangeEnd = 0
  /\ instructions = <<>>
  /\ pc = "idle"
  /\ fileData = <<>>
  /\ hdr_size = 0
  /\ img_size = 0
  /\ overlays = <<>>
  /\ functions = <<>>
  /\ strings = <<>>
  /\ apc = "none"
  /\ NoLifter
  /\ exe \in ExeFiles
  /\ known_funcs \in {parse_function_names(h) : h \in HeaderFiles}
  /\ stub_names \in StubFiles
  /\ resolved = EmptyDict
  /\ aliases = EmptyDict
  /\ c_library = EmptyDict
  /\ unresolvable = <<>>
  /\ alias_file = <<>>
  /\ remaining = 0
  /\ ri = 1
  /\ rpc = "resolving"

\* one turn of the loop over stub_names; an exception ends main
ResolveStub ==
  /\ rpc = "resolving"
  /\ ri <= Len(stub_names)
  /\ \E c \in {Categorize(stub_names[ri], exe, known_funcs)} :
       /\ rpc' = IF c.class \in {"IndexError", "ValueError"}
                 THEN c.class ELSE rpc
       /\ ri' = IF c.class \in {"IndexError", "ValueError"} THEN ri ELSE ri + 1
       /\ resolved' = IF c.class = "resolved"
                      THEN DictPut(resolved, stub_names[ri], c.value)
                      ELSE resolved
       /\ aliases' = IF c.class = "aliases"
                     THEN DictPut(aliases, stub_names[ri], c.value)
                     ELSE aliases
       /\ c_library' = IF c.class = "c_library"
                       THEN DictPut(c_library, stub_names[ri], c.value)
                       ELSE c_library
       /\ unresolvable' = IF c.class = "unresolvable"
                          THEN Append(unresolvable, stub_names[ri])
                          ELSE unresolvable
  /\ UNCHANGED <<exe, known_funcs, stub_names, alias_file, remaining,
                 dvars, avars, lvars>>

\* civ_aliases.c: a wrapper per exact match, in the order of the stub names
WriteAliases ==
  /\ rpc = "resolving"
  /\ ri > Len(stub_names)
  /\ alias_file' = SortedItems(resolved, DOMAIN resolved)
  /\ rpc' = "written"
  /\ UNCHANGED <<exe, known_funcs, stub_names, resolved, aliases, c_library,
                 unresolvable, remaining, ri, dvars, avars, lvars>>

\* the summary: remaining = len(stub_names) - len(resolved)
Summary ==
  /\ rpc = "written"
  /\ remaining' = Len(stub_names) - Cardinality(DOMAIN resolved)
  /\ rpc' = "done"
  /\ UNCHANGED <<exe, known_funcs, stub_names, resolved, aliases, c_library,
                 unresolvable, alias_file, ri, dvars, avars, lvars>>

NextResolver == ResolveStub \/ WriteAliases \/ Summary

SpecResolver == InitResolver /\ [][NextResolver]_vars

\* the stubs of the pool whose names the stubs file holds
StubsRead ==
  {k \in 1..Len(StubPool) :
     \E i \in 1..Len(stub_names) : stub_names[i] = StubText(StubPool[k])}

\* the file offset a stub stands for
StubOffset(r) ==
  IF r.kind = "far" THEN r.seg * 16 + r.off + exe[9] * 16 ELSE r.off

HasOffset(r) == r.kind \in {"far", "res", "ovl"}

KnownAt(o) == o \in DOMAIN known_funcs

NearDeltas(r) == {d \in (-16)..16 : KnownAt(StubOffset(r) + d)}

\* the collections that hold a name
ClassesOf(name) ==
  {c \in {"exact", "near", "in-file", "unresolvable"} :
     \/ c = "exact" /\ name \in DOMAIN resolved
     \/ c = "near" /\ name \in DOMAIN aliases
     \/ c = "in-file" /\ name \in DOMAIN c_library
     \/ c = "unresolvable"
          /\ \E i \in 1..Len(unresolvable) : unresolvable[i] = name}

\* the class of a stub by the rule: exact before near, near before in-file
ClassByRule(r) ==
  IF ~HasOffset(r) THEN "unresolvable"
  ELSE IF KnownAt(StubOffset(r)) THEN "exact"
  ELSE IF NearDeltas(r) # {} THEN "near"
  ELSE IF 0 < StubOffset(r) /\ StubOffset(r) < Len(exe) THEN "in-file"
  ELSE "unresolvable"

(***************************************************************************)
(* C30: when resolve_stubs has run over a stubs file of distinct names of  *)
(* the forms far_SSSS_XXXX, res_XXXXXX and ovlNN_XXXX, every stub name is  *)
(* in exactly one of the four classes; it is an exact match when a known   *)
(* function starts at its file offset (seg*16 + off + header size for a    *)
(* far name, the embedded offset for a res or ovl name), whether or not    *)
(* another known function is within 16 bytes, and is then resolved to that *)
(* function; otherwise it is a near match when a known function starts     *)
(* within 16 bytes, and is recorded with the least such delta and the      *)
(* function there; otherwise it is in-file exactly when 0 < offset < file  *)
(* length; and the remaining count is the number of stubs minus the number *)
(* of exact matches.                                                       *)
(***************************************************************************)
C30_FourClasses ==
  rpc = "done" =>
    /\ \A i \in 1..Len(stub_names) :
         Cardinality(ClassesOf(stub_names[i])) = 1
    /\ \A k \in StubsRead :
         \E r \in {StubPool[k]} : \E name \in {StubText(StubPool[k])} :
           /\ ClassesOf(name) = {ClassByRule(r)}
           /\ ClassByRule(r) = "exact" =>
                resolved[name] = known_funcs[StubOffset(r)]
           /\ ClassByRule(r) = "near" =>
                \E d \in NearDeltas(r) :
                  /\ \A e \in NearDeltas(r) : d <= e
                  /\ aliases[name] = <<known_funcs[StubOffset(r) + d], d>>
    /\ remaining = Len(stub_names)
                     - Cardinality({k \in StubsRead :
                                      ClassByRule(StubPool[k]) = "exact"})

\* a run with a stub in each class: an exact match that also has a known
\* function within 16 bytes, a near match with two known functions in
\* reach, an in-file stub and an unresolvable one
C30_Witness ==
  /\ rpc = "done"
  /\ Len(stub_names) = 4
  /\ \E k \in StubsRead :
       /\ ClassByRule(StubPool[k]) = "exact"
       /\ NearDeltas(StubPool[k]) # {0}
       /\ StubText(StubPool[k]) \in DOMAIN resolved
  /\ \E k \in StubsRead :
       /\ Cardinality(NearDeltas(StubPool[k])) = 2
       /\ StubText(StubPool[k]) \in DOMAIN aliases
  /\ \E k \in StubsRead : StubText(StubPool[k]) \in DOMAIN c_library
  /\ unresolvable # <<>>
  /\ remaining = 3
====
